---- MODULE Spec2Model ----
(***************************************************************************)
(* Destructible voxel terrain of bevy_game: the per-tick pipeline          *)
(*   start_voxel_breaking_system -> update_voxel_breaking_system ->        *)
(*   update_drops_system -> collect_drop_system -> clean_old_drops_system  *)
(* over the DynamicChunkSystem chunk store, the player's Tool and the      *)
(* VoxelBreaking / VoxelDrop entities.                                     *)
(*                                                                         *)
(* Fixed-point units (f32 values of the source are kept as integers):      *)
(*   length    1 unit = 1 cm          (VOXEL_SIZE = 0.1 m = 10 units)      *)
(*   time      1 unit = 1/300 s       (1 s = 300 units)                    *)
(*   velocity  1 unit = 1 cm/s                                             *)
(*   progress  1.0    = ProgressOne units                                  *)
(*   hardness, effectiveness, speed multiplier: 1 unit = 0.1               *)
(* Vectors are triples <<x, y, z>>.                                        *)
(***************************************************************************)
EXTENDS Integers, Sequences, FiniteSets, TLC

(***************************************************************************)
(* Program constants                                                       *)
(***************************************************************************)
BASE_CHUNK_SIZE == 32
VOXEL_SIZE == 10
TimeUnitsPerSecond == 300
ProgressOne == 20000
RAYCAST_MAX_DISTANCE == 500
GROUND_SEARCH_OFFSET == 200
GROUND_SEARCH_DISTANCE == 1000
COLLECT_DELAY == 300
DESPAWN_AGE == 18000
COLLECT_RADIUS == 200
GRAVITY_DROP == 980
BREAK_TIME_SENTINEL == 299700
LEGACY_GROUND_FLOOR == -2000
LEGACY_GROUND_DEFAULT == 50

(***************************************************************************)
(* Bounds of the model                                                     *)
(***************************************************************************)
\* number of frames a run takes
MaxFrames == 3
\* largest durability a tool starts the run with below its maximum
LowDurability == 1

\* number of frames a run of the drop life-cycle specification takes
DropFrames == 3

\* per-tick elapsed times offered by the Time resource
DtChoices == {100, 18000}

\* per-tick elapsed times of the drop life-cycle specification: 1 s and 60 s
DropDtChoices == {300, 18000}

VoxelTypes == {"Air", "Dirt", "Stone", "Wood", "Metal", "Grass", "Sand"}
ToolTypes == {"Pickaxe", "Axe", "Shovel", "Hoe", "None"}
LODs == {"Ultra", "High", "Medium", "Low", "Minimal"}

(***************************************************************************)
(* Small helpers                                                           *)
(***************************************************************************)
Abs(n) == IF n < 0 THEN -n ELSE n

\* f32 multiplication by a ratio num/den, rounded toward zero
MulRatio(v, num, den) == IF v < 0 THEN -(((-v) * num) \div den) ELSE (v * num) \div den

VAdd(a, b) == <<a[1] + b[1], a[2] + b[2], a[3] + b[3]>>

DistSq(a, b) ==
    (a[1] - b[1]) * (a[1] - b[1]) + (a[2] - b[2]) * (a[2] - b[2]) + (a[3] - b[3]) * (a[3] - b[3])

\* a.distance(b) <= r; a point further than r along one axis is further than r
Within(a, b, r) ==
    /\ Abs(a[1] - b[1]) <= r /\ Abs(a[2] - b[2]) <= r /\ Abs(a[3] - b[3]) <= r
    /\ DistSq(a, b) <= r * r

(***************************************************************************)
(* voxel_types.rs                                                          *)
(***************************************************************************)
hardness(voxel_type) ==
    CASE voxel_type = "Air" -> 0
      [] voxel_type = "Dirt" -> 10
      [] voxel_type = "Stone" -> 50
      [] voxel_type = "Wood" -> 20
      [] voxel_type = "Metal" -> 100
      [] voxel_type = "Grass" -> 10
      [] voxel_type = "Sand" -> 5

is_solid(voxel_type) == voxel_type # "Air"

\* density and world_y in cm
from_density(density, world_y) ==
    IF density <= 0 THEN "Air"
    ELSE IF world_y < 50 THEN "Stone"
    ELSE IF world_y < 150 THEN "Dirt"
    ELSE IF world_y < 160 THEN "Grass"
    ELSE "Dirt"

(***************************************************************************)
(* tools.rs                                                                *)
(***************************************************************************)
max_durability(tool_type) == IF tool_type = "None" THEN 0 ELSE 100

speed_multiplier(tool_type) == IF tool_type = "None" THEN 5 ELSE 10

\* the table with the multiplier of an unmatched pair at 0.5
effectiveness_against_Half(tool_type, voxel_type) ==
    IF voxel_type = "Air" THEN 10
    ELSE IF tool_type = "Pickaxe" /\ voxel_type \in {"Stone", "Metal"} THEN 15
    ELSE IF tool_type = "Axe" /\ voxel_type = "Wood" THEN 15
    ELSE IF tool_type = "Shovel" /\ voxel_type \in {"Dirt", "Grass", "Sand"} THEN 15
    ELSE 5

effectiveness_against(tool_type, voxel_type) ==
    IF voxel_type = "Air" THEN 10
    ELSE IF tool_type = "Pickaxe" /\ voxel_type \in {"Stone", "Metal"} THEN 15
    ELSE IF tool_type = "Axe" /\ voxel_type = "Wood" THEN 15
    ELSE IF tool_type = "Shovel" /\ voxel_type \in {"Dirt", "Grass", "Sand"} THEN 15
    ELSE 3

Soft == {"Dirt", "Grass", "Sand"}

\* the (min, max) pair of the quantity table
RECURSIVE drop_range(_, _)
drop_range(tool_type, voxel_type) ==
    IF voxel_type = "Air" THEN <<0, 0>>
    ELSE IF tool_type = "None" THEN
        (CASE voxel_type = "Stone" -> <<0, 1>>
           [] voxel_type = "Metal" -> <<0, 0>>
           [] voxel_type \in Soft -> <<2, 3>>
           [] voxel_type = "Wood" -> <<1, 2>>)
    ELSE IF tool_type = "Shovel" THEN
        (CASE voxel_type \in Soft -> <<8, 15>>
           [] voxel_type = "Stone" -> <<2, 4>>
           [] voxel_type = "Wood" -> <<3, 5>>
           [] voxel_type = "Metal" -> <<0, 1>>)
    ELSE IF tool_type = "Pickaxe" THEN
        (CASE voxel_type = "Stone" -> <<8, 15>>
           [] voxel_type = "Metal" -> <<3, 8>>
           [] voxel_type \in Soft -> <<5, 8>>
           [] voxel_type = "Wood" -> <<4, 6>>)
    ELSE IF tool_type = "Axe" THEN
        (CASE voxel_type = "Wood" -> <<10, 30>>
           [] voxel_type \in Soft -> <<6, 10>>
           [] voxel_type = "Stone" -> <<3, 6>>
           [] voxel_type = "Metal" -> <<1, 3>>)
    ELSE drop_range("Shovel", voxel_type)

\* a draw whose upper end lies one past the table's maximum
gen_range_PastMax(min, max) == {min, max + 1}

\* rng.gen_range(min..=max), sampled at the two ends of the range
gen_range(min, max) == {min, max}

\* the set of values calculate_drops may return
calculate_drops(tool_type, voxel_type) ==
    LET r == drop_range(tool_type, voxel_type)
    IN IF r[1] >= r[2] THEN {r[1]} ELSE gen_range(r[1], r[2])

\* the pattern table with the bare-hands arm falling through to the shovel's
get_destruction_pattern_NoneAsShovel(tool_type) ==
    CASE tool_type \in {"None", "Shovel", "Hoe"} ->
            << <<0, 0, 0>>, <<1, 0, 0>>, <<-1, 0, 0>>, <<0, 0, 1>>, <<0, 0, -1>>, <<0, -1, 0>> >>
      [] tool_type = "Pickaxe" ->
            << <<0, 0, 0>>, <<1, 0, 0>>, <<-1, 0, 0>>, <<0, 1, 0>>, <<0, -1, 0>>,
               <<0, 0, 1>>, <<0, 0, -1>> >>
      [] tool_type = "Axe" ->
            << <<0, 0, 0>>, <<0, 1, 0>>, <<0, -1, 0>>, <<1, 0, 0>>, <<-1, 0, 0>>,
               <<0, 2, 0>>, <<0, -2, 0>>, <<1, 1, 0>>, <<-1, 1, 0>>, <<1, -1, 0>>,
               <<-1, -1, 0>> >>

RECURSIVE get_destruction_pattern(_)
get_destruction_pattern(tool_type) ==
    CASE tool_type = "None" -> << <<0, 0, 0>> >>
      [] tool_type = "Shovel" ->
            << <<0, 0, 0>>, <<1, 0, 0>>, <<-1, 0, 0>>, <<0, 0, 1>>, <<0, 0, -1>>, <<0, -1, 0>> >>
      [] tool_type = "Pickaxe" ->
            << <<0, 0, 0>>, <<1, 0, 0>>, <<-1, 0, 0>>, <<0, 1, 0>>, <<0, -1, 0>>,
               <<0, 0, 1>>, <<0, 0, -1>> >>
      [] tool_type = "Axe" ->
            << <<0, 0, 0>>, <<0, 1, 0>>, <<0, -1, 0>>, <<1, 0, 0>>, <<-1, 0, 0>>,
               <<0, 2, 0>>, <<0, -2, 0>>, <<1, 1, 0>>, <<-1, 1, 0>>, <<1, -1, 0>>,
               <<-1, -1, 0>> >>
      [] tool_type = "Hoe" -> get_destruction_pattern("Shovel")

\* Tool::new
NewTool(tool_type) ==
    [tool_type |-> tool_type, current_durability |-> max_durability(tool_type)]

\* Tool::damage with a plain subtraction in place of the saturating one
damage_Unsaturated(tool, amount) ==
    IF tool.tool_type = "None" THEN [tool |-> tool, broke |-> FALSE]
    ELSE LET d == tool.current_durability - amount
         IN [tool |-> [tool EXCEPT !.current_durability = d], broke |-> d = 0]

\* Tool::damage: the tool after the call and the returned flag
damage(tool, amount) ==
    IF tool.tool_type = "None" THEN [tool |-> tool, broke |-> FALSE]
    ELSE LET d == IF tool.current_durability >= amount
                  THEN tool.current_durability - amount ELSE 0
         IN [tool |-> [tool EXCEPT !.current_durability = d], broke |-> d = 0]

is_broken(tool) == tool.tool_type # "None" /\ tool.current_durability = 0

(***************************************************************************)
(* destruction.rs: helper functions                                        *)
(***************************************************************************)
\* the body of calculate_break_time once the three properties are read: the
\* guard against a division by zero, then base_time * hardness /
\* (effectiveness * speed), in time units
BreakTimeOf(h, effectiveness, speed) ==
    IF effectiveness = 0 \/ speed = 0 THEN BREAK_TIME_SENTINEL
    ELSE (TimeUnitsPerSecond * 10 * h) \div (effectiveness * speed)

\* break time in time units
calculate_break_time(voxel_type, tool_type) ==
    BreakTimeOf(hardness(voxel_type), effectiveness_against(tool_type, voxel_type),
                speed_multiplier(tool_type))

\* the conversion with `as i32` and `/`, `%` in place of floor, div_euclid and
\* rem_euclid: every division rounds toward zero
world_to_voxel_3d_Truncating(world_pos) ==
    LET quot(a, b) == IF a < 0 THEN -((-a) \div b) ELSE a \div b
        rem(a, b) == a - quot(a, b) * b
        voxel == <<quot(world_pos[1], VOXEL_SIZE), quot(world_pos[2], VOXEL_SIZE),
                   quot(world_pos[3], VOXEL_SIZE)>>
    IN << <<quot(voxel[1], BASE_CHUNK_SIZE), quot(voxel[2], BASE_CHUNK_SIZE),
            quot(voxel[3], BASE_CHUNK_SIZE)>>,
          <<rem(voxel[1], BASE_CHUNK_SIZE), rem(voxel[2], BASE_CHUNK_SIZE),
            rem(voxel[3], BASE_CHUNK_SIZE)>>,
          voxel >>

\* world position (cm) -> <<chunk, local, voxel>>
world_to_voxel_3d(world_pos) ==
    LET voxel == <<world_pos[1] \div VOXEL_SIZE, world_pos[2] \div VOXEL_SIZE,
                   world_pos[3] \div VOXEL_SIZE>>
    IN << <<voxel[1] \div BASE_CHUNK_SIZE, voxel[2] \div BASE_CHUNK_SIZE,
            voxel[3] \div BASE_CHUNK_SIZE>>,
          <<voxel[1] % BASE_CHUNK_SIZE, voxel[2] % BASE_CHUNK_SIZE,
            voxel[3] % BASE_CHUNK_SIZE>>,
          voxel >>

InChunk(p) ==
    /\ p[1] >= 0 /\ p[1] < BASE_CHUNK_SIZE
    /\ p[2] >= 0 /\ p[2] < BASE_CHUNK_SIZE
    /\ p[3] >= 0 /\ p[3] < BASE_CHUNK_SIZE

(***************************************************************************)
(* chunk.rs: the chunk store.  A chunk keeps its two grids as maps from    *)
(* local coordinate to value over the cells the model tracks; a cell that  *)
(* is not tracked is empty: its material is Air and its density is not     *)
(* positive (-1).                                                          *)
(***************************************************************************)
get_voxel_type(chunk, p) ==
    IF p \in DOMAIN chunk.voxel_types THEN chunk.voxel_types[p] ELSE "Air"

get_density(chunk, p) ==
    IF p \in DOMAIN chunk.densities THEN chunk.densities[p] ELSE -1

\* a write that stores Stone whatever material it is given
set_voxel_type_Stone(chunk, p, voxel_type) ==
    [chunk EXCEPT
        !.voxel_types = [q \in (DOMAIN chunk.voxel_types) \cup {p} |->
                            IF q = p THEN "Stone" ELSE chunk.voxel_types[q]],
        !.dirty = TRUE]

set_voxel_type(chunk, p, voxel_type) ==
    [chunk EXCEPT
        !.voxel_types = [q \in (DOMAIN chunk.voxel_types) \cup {p} |->
                            IF q = p THEN voxel_type ELSE chunk.voxel_types[q]],
        !.dirty = TRUE]

(***************************************************************************)
(* destruction.rs: raycast_voxel_3d (Amanatides-Woo traversal).            *)
(* The direction is an integer vector; the source normalises it, which     *)
(* multiplies every t value by the same positive factor, so the t values   *)
(* are kept multiplied by RayScale(dir) / |dir| and stay integers.         *)
(***************************************************************************)
None == [some |-> FALSE]

RayInfinity == 100000000

RayScale(dir) ==
    (IF dir[1] = 0 THEN 1 ELSE Abs(dir[1]))
    * (IF dir[2] = 0 THEN 1 ELSE Abs(dir[2]))
    * (IF dir[3] = 0 THEN 1 ELSE Abs(dir[3]))

RayVoxel(origin) ==
    <<origin[1] \div VOXEL_SIZE, origin[2] \div VOXEL_SIZE, origin[3] \div VOXEL_SIZE>>

RayStep(dir) ==
    <<IF dir[1] > 0 THEN 1 ELSE -1, IF dir[2] > 0 THEN 1 ELSE -1, IF dir[3] > 0 THEN 1 ELSE -1>>

RayTMaxAxis(o, v, d, scale) ==
    IF d # 0
    THEN LET next_boundary == IF d > 0 THEN (v + 1) * VOXEL_SIZE ELSE v * VOXEL_SIZE
         IN IF d > 0 THEN (next_boundary - o) * (scale \div d)
            ELSE (o - next_boundary) * (scale \div (-d))
    ELSE RayInfinity

RayTMax(origin, dir) ==
    LET v == RayVoxel(origin)
        s == RayScale(dir)
    IN <<RayTMaxAxis(origin[1], v[1], dir[1], s), RayTMaxAxis(origin[2], v[2], dir[2], s),
         RayTMaxAxis(origin[3], v[3], dir[3], s)>>

RayTDeltaAxis(d, scale) ==
    IF d # 0 THEN VOXEL_SIZE * (scale \div Abs(d)) ELSE RayInfinity

RayTDelta(dir) ==
    LET s == RayScale(dir)
    IN <<RayTDeltaAxis(dir[1], s), RayTDeltaAxis(dir[2], s), RayTDeltaAxis(dir[3], s)>>

\* a step bound of one iteration more
RayMaxSteps_OneMore(max_distance) == (max_distance \div VOXEL_SIZE) + 2

RayMaxSteps(max_distance) == (max_distance \div VOXEL_SIZE) + 1

\* the axis the traversal advances along
RayAxis(t_max) ==
    IF t_max[1] < t_max[2] /\ t_max[1] < t_max[3] THEN 1
    ELSE IF t_max[2] < t_max[3] THEN 2
    ELSE 3

\* the solidity test with a voxel of a chunk the store lacks taken for Stone
RayTest_AbsentSolid(voxel_pos, cs) ==
    LET w == world_to_voxel_3d(<<voxel_pos[1] * VOXEL_SIZE + VOXEL_SIZE \div 2,
                                 voxel_pos[2] * VOXEL_SIZE + VOXEL_SIZE \div 2,
                                 voxel_pos[3] * VOXEL_SIZE + VOXEL_SIZE \div 2>>)
        chunk_pos == w[1]
        local_pos == w[2]
    IN IF chunk_pos \notin DOMAIN cs.base_chunks
       THEN [some |-> TRUE, chunk_pos |-> chunk_pos, local_pos |-> local_pos,
             voxel_type |-> "Stone"]
       ELSE IF InChunk(local_pos)
               /\ is_solid(get_voxel_type(cs.base_chunks[chunk_pos], local_pos))
       THEN [some |-> TRUE, chunk_pos |-> chunk_pos, local_pos |-> local_pos,
             voxel_type |-> get_voxel_type(cs.base_chunks[chunk_pos], local_pos)]
       ELSE None

\* the solidity test of one voxel of the traversal
RayTest(voxel_pos, cs) ==
    LET w == world_to_voxel_3d(<<voxel_pos[1] * VOXEL_SIZE + VOXEL_SIZE \div 2,
                                 voxel_pos[2] * VOXEL_SIZE + VOXEL_SIZE \div 2,
                                 voxel_pos[3] * VOXEL_SIZE + VOXEL_SIZE \div 2>>)
        chunk_pos == w[1]
        local_pos == w[2]
    IN IF chunk_pos \in DOMAIN cs.base_chunks /\ InChunk(local_pos)
          /\ is_solid(get_voxel_type(cs.base_chunks[chunk_pos], local_pos))
       THEN [some |-> TRUE, chunk_pos |-> chunk_pos, local_pos |-> local_pos,
             voxel_type |-> get_voxel_type(cs.base_chunks[chunk_pos], local_pos)]
       ELSE None

RECURSIVE RayLoop(_, _, _, _, _, _, _, _)
\* the traversal loop from iteration i on; step and t_delta are fixed before it
RayLoop(i, voxel_pos, t_max, origin, step, t_delta, max_distance, cs) ==
    IF i >= RayMaxSteps(max_distance) THEN None
    ELSE LET hit == RayTest(voxel_pos, cs)
         IN IF hit.some THEN hit
            ELSE LET a == RayAxis(t_max)
                     next_pos == [voxel_pos EXCEPT ![a] = @ + step[a]]
                     next_t == [t_max EXCEPT ![a] =
                                    IF t_delta[a] = RayInfinity THEN RayInfinity
                                    ELSE @ + t_delta[a]]
                     corner == <<next_pos[1] * VOXEL_SIZE, next_pos[2] * VOXEL_SIZE,
                                 next_pos[3] * VOXEL_SIZE>>
                 IN IF DistSq(corner, origin) > max_distance * max_distance THEN None
                    ELSE RayLoop(i + 1, next_pos, next_t, origin, step, t_delta,
                                 max_distance, cs)

raycast_voxel_3d(origin, direction, max_distance, cs) ==
    RayLoop(0, RayVoxel(origin), RayTMax(origin, direction), origin, RayStep(direction),
            RayTDelta(direction), max_distance, cs)

RECURSIVE RayTrace(_, _, _, _, _, _, _, _)
\* the iterations the traversal loop runs from iteration i on: the voxel each
\* one tests and the t_max it holds when it tests it
RayTrace(i, voxel_pos, t_max, origin, step, t_delta, max_distance, cs) ==
    IF i >= RayMaxSteps(max_distance) THEN <<>>
    ELSE <<[voxel_pos |-> voxel_pos, t_max |-> t_max]>> \o
         (IF RayTest(voxel_pos, cs).some THEN <<>>
          ELSE LET a == RayAxis(t_max)
                   next_pos == [voxel_pos EXCEPT ![a] = @ + step[a]]
                   next_t == [t_max EXCEPT ![a] =
                                  IF t_delta[a] = RayInfinity THEN RayInfinity
                                  ELSE @ + t_delta[a]]
                   corner == <<next_pos[1] * VOXEL_SIZE, next_pos[2] * VOXEL_SIZE,
                               next_pos[3] * VOXEL_SIZE>>
               IN IF DistSq(corner, origin) > max_distance * max_distance THEN <<>>
                  ELSE RayTrace(i + 1, next_pos, next_t, origin, step, t_delta,
                                max_distance, cs))

\* the iterations of raycast_voxel_3d, in order
raycast_voxel_3d_trace(origin, direction, max_distance, cs) ==
    RayTrace(0, RayVoxel(origin), RayTMax(origin, direction), origin, RayStep(direction),
             RayTDelta(direction), max_distance, cs)

(***************************************************************************)
(* destruction.rs: raycast_ground / find_ground_height (drop spawning)     *)
(***************************************************************************)
GroundStepSize == VOXEL_SIZE \div 2

GroundMaxSteps(max_distance) == max_distance \div GroundStepSize

\* the solidity test of one sample of the downward search
GroundTest(current_pos, cs) ==
    LET w == world_to_voxel_3d(current_pos)
    IN /\ w[1] \in DOMAIN cs.base_chunks
       /\ InChunk(w[2])
       /\ is_solid(get_voxel_type(cs.base_chunks[w[1]], w[2]))

\* direction is NEG_Y: sample k is origin lowered by k steps; the loop returns
\* the first sample, in order of k, that is inside a solid voxel
raycast_ground(origin, max_distance, cs) ==
    LET hits == {k \in 0..(GroundMaxSteps(max_distance) - 1) :
                    GroundTest(<<origin[1], origin[2] - k * GroundStepSize, origin[3]>>, cs)}
    IN IF hits = {} THEN None
       ELSE LET k == CHOOSE m \in hits : \A n \in hits : m <= n
            IN [some |-> TRUE,
                pos |-> <<origin[1], origin[2] - k * GroundStepSize, origin[3]>>]

\* the samples the loop of raycast_ground tests, in order: it stops after the
\* first one inside a solid voxel
raycast_ground_trace(origin, max_distance, cs) ==
    LET sample(k) == <<origin[1], origin[2] - k * GroundStepSize, origin[3]>>
        hits == {k \in 0..(GroundMaxSteps(max_distance) - 1) : GroundTest(sample(k), cs)}
        last == IF hits = {} THEN GroundMaxSteps(max_distance) - 1
                ELSE CHOOSE m \in hits : \A n \in hits : m <= n
    IN [k \in 1..(last + 1) |-> sample(k - 1)]

find_ground_height(position, cs, max_distance) ==
    LET hit == raycast_ground(position, max_distance, cs)
    IN IF hit.some THEN [some |-> TRUE, height |-> hit.pos[2] + VOXEL_SIZE \div 2]
       ELSE None

(***************************************************************************)
(* State                                                                   *)
(***************************************************************************)
VARIABLES
    pc,                 \* the pass of the chained Update systems that runs next
    frame,              \* number of frames started
    elapsed,            \* Time::elapsed_secs
    delta,              \* Time::delta_secs of the current tick
    cameras,            \* number of Camera entities
    has_player,         \* exactly one entity carries Player (and Tool, Transform)
    tool,               \* the player's Tool component
    chunk_system,       \* DynamicChunkSystem: [base_chunks, player_position]
    breaking,           \* the VoxelBreaking entities, in query order
    drops,              \* the VoxelDrop entities, in query order
    commands,           \* the command buffer applied after the last pass
    log,                \* the info! lines of the last pass
    chunk_meshes,       \* the Mesh3d of each chunk entity: the voxels its mesh encloses
    chunk_map,          \* ChunkMap with the columnar Chunk component of each entry
    column_meshes       \* the mesh last extracted for each columnar chunk

vars == <<pc, frame, elapsed, delta, cameras, has_player, tool, chunk_system, breaking,
          drops, commands, log, chunk_meshes, chunk_map, column_meshes>>

(***************************************************************************)
(* Inputs of the model                                                     *)
(***************************************************************************)
\* The terrain of a run.  The noise is an input: it gives the two columns
\* x = 31 and x = 32 (z = 0) on either side of a chunk border the height
\* 1.6 m and leaves every other column empty.  The voxels of Window (global
\* voxel coordinates) are the ones whose material the run starts with as
\* generated; the other voxels of the two columns have been dug out before
\* the run starts, which leaves their density as generated.
Window == {<<31, 4, 0>>, <<31, 14, 0>>, <<31, 15, 0>>, <<31, 16, 0>>, <<32, 14, 0>>,
           <<32, 15, 0>>}

Columns == {<<v[1], v[3]>> : v \in Window}

\* the voxels whose density the chunks track: the two columns up to the top
\* of Window
DensityWindow == {<<c[1], y, c[2]>> : c \in Columns, y \in 0..16}

\* terrain heights (cm) the noise yields for the columns <<x, z>>:
\* 1.5 m + noise * 0.5 m
InitHeights == {[c \in Columns |-> 160]}

StoredChunks == {<<0, 0, 0>>, <<1, 0, 0>>}

\* camera poses: straight down on column 31, and a diagonal in the x-y plane
\* that enters the terrain through the top of column 32
Aims == {[translation |-> <<315, 300, 5>>, forward |-> <<0, -1, 0>>],
         [translation |-> <<235, 250, 5>>, forward |-> <<1, -1, 0>>]}

PlayerPositions == {<<300, 150, 0>>, <<300, 150, 3000>>}

\* initial velocities VoxelDrop::new may draw: x, z in [-200, 200), y in [200, 500)
DropVelocities == {<<0, 200, 0>>}

(***************************************************************************)
(* chunk.rs: BaseChunk::new restricted to the tracked cells                *)
(***************************************************************************)
ChunkOf(v) ==
    <<v[1] \div BASE_CHUNK_SIZE, v[2] \div BASE_CHUNK_SIZE, v[3] \div BASE_CHUNK_SIZE>>

LocalOf(v) ==
    <<v[1] % BASE_CHUNK_SIZE, v[2] % BASE_CHUNK_SIZE, v[3] % BASE_CHUNK_SIZE>>

GlobalOf(chunk_pos, local_pos) ==
    <<chunk_pos[1] * BASE_CHUNK_SIZE + local_pos[1],
      chunk_pos[2] * BASE_CHUNK_SIZE + local_pos[2],
      chunk_pos[3] * BASE_CHUNK_SIZE + local_pos[3]>>

\* the generation with the noise sampled at the local column of each corner
BaseChunkOver_LocalNoise(position, height, cells, corners) ==
    LET world_y(p) == (position[2] * BASE_CHUNK_SIZE + p[2]) * VOXEL_SIZE
        density(p) == height[<<p[1], p[3]>>] - world_y(p)
    IN [position |-> position,
        densities |-> [p \in corners |-> density(p)],
        voxel_types |-> [p \in cells |-> from_density(density(p), world_y(p))],
        lod_level |-> "Ultra",
        dirty |-> TRUE]

\* BaseChunk::new over the cells of voxel_types and the corners of densities
\* the model tracks; height is the noise-derived terrain height of each
\* column of world coordinates, in cm
BaseChunkOver(position, height, cells, corners) ==
    LET world_y(p) == (position[2] * BASE_CHUNK_SIZE + p[2]) * VOXEL_SIZE
        col(p) == <<position[1] * BASE_CHUNK_SIZE + p[1], position[3] * BASE_CHUNK_SIZE + p[3]>>
        density(p) == height[col(p)] - world_y(p)
    IN [position |-> position,
        densities |-> [p \in corners |-> density(p)],
        voxel_types |-> [p \in cells |-> from_density(density(p), world_y(p))],
        lod_level |-> "Ultra",
        dirty |-> TRUE]

\* height is the noise-derived terrain height of each column, in cm
BaseChunkNew(position, height) ==
    BaseChunkOver(position, height,
                  {LocalOf(v) : v \in {w \in Window : ChunkOf(w) = position}},
                  {LocalOf(v) : v \in {w \in DensityWindow : ChunkOf(w) = position}})

\* generate_mesh(chunk), which setup calls on every chunk it has generated. A
\* mesh is kept as the set of voxels it encloses: the extraction skips a voxel
\* whose density is not positive and builds geometry around the others.
generate_mesh(chunk) == {p \in DOMAIN chunk.voxel_types : get_density(chunk, p) > 0}

\* setup: the mesh of the entity spawned for each stored chunk (a chunk whose
\* mesh is empty gets no entity)
SetupMeshes(cs) == [c \in DOMAIN cs.base_chunks |-> generate_mesh(cs.base_chunks[c])]

(***************************************************************************)
(* Entity bookkeeping: the deferred command buffer                         *)
(***************************************************************************)
NoCommands ==
    [despawn_breaking |-> {}, despawn_drops |-> {}, spawn_breaking |-> <<>>,
     spawn_drops |-> <<>>]

RECURSIVE Without(_, _, _)
\* the entities of seq, from index i on, whose index is not in gone
Without(seq, gone, i) ==
    IF i > Len(seq) THEN <<>>
    ELSE IF i \in gone THEN Without(seq, gone, i + 1)
    ELSE <<seq[i]>> \o Without(seq, gone, i + 1)

\* the sync point after a system: despawns, then spawns
ApplyBreaking(seq, cmds) == Without(seq, cmds.despawn_breaking, 1) \o cmds.spawn_breaking

\* a sync point that leaves the queued spawns of drops for a later one
ApplyDrops_SpawnsLater(seq, cmds) == Without(seq, cmds.despawn_drops, 1)

ApplyDrops(seq, cmds) == Without(seq, cmds.despawn_drops, 1) \o cmds.spawn_drops

(***************************************************************************)
(* Init: the world a run starts in: the chunk store setup fills, over the  *)
(* terrain above; the cameras and the player of setup and spawn_player, or *)
(* no player; a tool that earlier use may have worn down.                  *)
(***************************************************************************)
InitDurabilities(tool_type) ==
    IF tool_type = "None" THEN {0}
    ELSE {LowDurability}

Init ==
    /\ pc = "begin"
    /\ frame = 0
    /\ elapsed = 0
    /\ delta = 0
    /\ cameras \in {1, 2}
    /\ has_player \in BOOLEAN
    /\ \E t \in ToolTypes : \E d \in InitDurabilities(t) :
          tool = [tool_type |-> t, current_durability |-> d]
    /\ has_player = FALSE => tool = NewTool("None")
    /\ \E height \in InitHeights :
          chunk_system = [base_chunks |-> [c \in StoredChunks |-> BaseChunkNew(c, height)],
                          player_position |-> <<0, 0, 0>>]
    /\ breaking = <<>>
    /\ drops = <<>>
    /\ commands = NoCommands
    /\ log = <<>>
    /\ chunk_meshes = SetupMeshes(chunk_system)
    /\ chunk_map = <<>>
    /\ column_meshes = <<>>

(***************************************************************************)
(* The frame start: time and input are refreshed before the Update systems *)
(***************************************************************************)
BeginFrame(dts, max_frames) ==
    /\ pc = "begin"
    /\ frame < max_frames
    /\ frame' = frame + 1
    /\ \E dt \in dts :
          /\ delta' = dt
          /\ elapsed' = elapsed + dt
    /\ pc' = "detect"
    /\ commands' = NoCommands
    /\ log' = <<>>
    /\ UNCHANGED <<chunk_map, column_meshes, chunk_meshes, cameras, has_player, tool,
                   chunk_system, breaking, drops>>

BeginTick == BeginFrame(DtChoices, MaxFrames)

BeginTickDrops == BeginFrame(DropDtChoices, DropFrames)

(***************************************************************************)
(* start_voxel_breaking_system                                             *)
(***************************************************************************)
\* player_query.single().map(|tool| tool.tool_type).unwrap_or(ToolType::None)
EquippedToolType == IF has_player THEN tool.tool_type ELSE "None"

AllBreaking == 1..Len(breaking)

\* the raycast of the detect pass
DetectHit(camera_transform) ==
    raycast_voxel_3d(camera_transform.translation, camera_transform.forward,
                     RAYCAST_MAX_DISTANCE, chunk_system)

\* the loop without the despawn of the entities that target another voxel
DetectCommands_KeepOthers(hit) ==
    LET same(i) == breaking[i].chunk_pos = hit.chunk_pos
                   /\ breaking[i].local_pos = hit.local_pos
        found_existing == \E i \in AllBreaking : same(i)
        break_time == calculate_break_time(hit.voxel_type, EquippedToolType)
    IN [despawn_breaking |-> {},
        despawn_drops |-> {},
        spawn_breaking |->
            IF found_existing THEN <<>>
            ELSE <<[chunk_pos |-> hit.chunk_pos, local_pos |-> hit.local_pos,
                    progress |-> 0, break_time |-> break_time]>>,
        spawn_drops |-> <<>>]

\* the commands queued by the loop over the existing VoxelBreaking entities
DetectCommands(hit) ==
    LET same(i) == breaking[i].chunk_pos = hit.chunk_pos
                   /\ breaking[i].local_pos = hit.local_pos
        matches == {i \in AllBreaking : same(i)}
        found_existing == matches # {}
        first == IF found_existing THEN CHOOSE m \in matches : \A n \in matches : m <= n
                 ELSE Len(breaking) + 1
        break_time == calculate_break_time(hit.voxel_type, EquippedToolType)
    IN [despawn_breaking |-> {i \in AllBreaking : i < first},
        despawn_drops |-> {},
        spawn_breaking |->
            IF found_existing THEN <<>>
            ELSE <<[chunk_pos |-> hit.chunk_pos, local_pos |-> hit.local_pos,
                    progress |-> 0, break_time |-> break_time]>>,
        spawn_drops |-> <<>>]

\* the system without the despawn on a released button
StartBreakingCommands_KeepOnRelease(pressed, camera_transform) ==
    IF ~pressed THEN NoCommands
    ELSE IF cameras # 1 THEN NoCommands
    ELSE LET hit == DetectHit(camera_transform)
         IN IF ~hit.some THEN [NoCommands EXCEPT !.despawn_breaking = AllBreaking]
            ELSE DetectCommands(hit)

\* the commands the system queues; pressed is mouse_input.pressed(Left) and
\* camera_transform is the Transform of the camera when there is exactly one
StartBreakingCommands(pressed, camera_transform) ==
    IF ~pressed THEN [NoCommands EXCEPT !.despawn_breaking = AllBreaking]
    ELSE IF cameras # 1 THEN NoCommands
    ELSE LET hit == DetectHit(camera_transform)
         IN IF ~hit.some THEN [NoCommands EXCEPT !.despawn_breaking = AllBreaking]
            ELSE DetectCommands(hit)

start_voxel_breaking(pressed, camera_transform) ==
    /\ pc = "detect"
    /\ LET cmds == StartBreakingCommands(pressed, camera_transform)
       IN /\ commands' = cmds
          /\ breaking' = ApplyBreaking(breaking, cmds)
    /\ pc' = "advance"
    /\ log' = <<>>
    /\ UNCHANGED <<chunk_map, column_meshes, chunk_meshes, frame, elapsed, delta, cameras,
                   has_player, tool, chunk_system, drops>>

start_voxel_breaking_system ==
    \E pressed \in BOOLEAN, camera_transform \in Aims :
        start_voxel_breaking(pressed, camera_transform)

(***************************************************************************)
(* update_voxel_breaking_system                                            *)
(***************************************************************************)
\* VoxelDrop::new with the entity's Transform and GroundDetection
spawn_voxel_drop_with_ground_detection(voxel_type, quantity, world_position, cs, current_time, velocity) ==
    LET g == find_ground_height(VAdd(world_position, <<0, GROUND_SEARCH_OFFSET, 0>>), cs,
                                GROUND_SEARCH_DISTANCE)
        ground_height == IF g.some THEN g.height ELSE world_position[2]
    IN [voxel_type |-> voxel_type,
        quantity |-> quantity,
        spawn_time |-> current_time,
        velocity |-> velocity,
        can_collect |-> FALSE,
        translation |-> <<world_position[1], ground_height + VOXEL_SIZE, world_position[3]>>,
        ground_height |-> ground_height]

\* let target_pos = breaking.local_pos + offset
PatternTarget(b, offset) == VAdd(b.local_pos, offset)

RECURSIVE PatternOutcomes(_, _, _, _, _, _, _)
\* the loop over the destruction pattern from offset i on: the set of results
\* [cs, spawned, total] over the values the random draws may take
PatternOutcomes(pattern, i, b, tool_type, cs, spawned, total) ==
    IF i > Len(pattern) THEN {[cs |-> cs, spawned |-> spawned, total |-> total]}
    ELSE LET target_pos == PatternTarget(b, pattern[i])
         IN IF InChunk(target_pos) /\ b.chunk_pos \in DOMAIN cs.base_chunks
               /\ is_solid(get_voxel_type(cs.base_chunks[b.chunk_pos], target_pos))
            THEN LET chunk == cs.base_chunks[b.chunk_pos]
                     voxel_type == get_voxel_type(chunk, target_pos)
                     cs2 == [cs EXCEPT !.base_chunks[b.chunk_pos] =
                                set_voxel_type(chunk, target_pos, "Air")]
                     g == GlobalOf(b.chunk_pos, target_pos)
                     world_pos == <<g[1] * VOXEL_SIZE, g[2] * VOXEL_SIZE, g[3] * VOXEL_SIZE>>
                 IN UNION {
                      IF q > 0
                      THEN UNION {
                             PatternOutcomes(pattern, i + 1, b, tool_type, cs2,
                                Append(spawned,
                                       spawn_voxel_drop_with_ground_detection(
                                           voxel_type, q, world_pos, cs2, elapsed, v)),
                                total + q)
                             : v \in DropVelocities}
                      ELSE PatternOutcomes(pattern, i + 1, b, tool_type, cs2, spawned, total)
                      : q \in calculate_drops(tool_type, voxel_type)}
            ELSE PatternOutcomes(pattern, i + 1, b, tool_type, cs, spawned, total)

\* the advance written as an assignment in place of the accumulation
AdvanceProgress_Assign(b, dt) == (dt * ProgressOne) \div b.break_time

\* breaking.progress += time.delta_secs() / breaking.break_time
AdvanceProgress(b, dt) == b.progress + (dt * ProgressOne) \div b.break_time

\* the completion test with a strict comparison
ProgressComplete_Strict(b) == b.progress > ProgressOne

\* if breaking.progress >= 1.0
ProgressComplete(b) == b.progress >= ProgressOne

RECURSIVE BreakingOutcomes(_, _)
\* the loop over the VoxelBreaking entities from index j on; st carries the
\* chunk store, the tool, the entities as updated so far, the queued commands
\* and the log
BreakingOutcomes(j, st) ==
    IF j > Len(breaking) THEN {st}
    ELSE LET b == [breaking[j] EXCEPT !.progress = AdvanceProgress(breaking[j], delta)]
             st1 == [st EXCEPT !.breaking[j] = b]
         IN IF ProgressComplete(b)
            THEN LET tool_type == EquippedToolType
                     d == damage(st.tool, 1)
                 IN UNION {
                      BreakingOutcomes(j + 1,
                        [st1 EXCEPT
                           !.cs = o.cs,
                           !.tool = IF has_player THEN d.tool ELSE st.tool,
                           !.cmds.spawn_drops = @ \o o.spawned,
                           !.cmds.despawn_breaking = @ \cup {j},
                           !.log = @ \o <<[msg |-> "crater", value |-> o.total]>>
                                     \o (IF has_player /\ d.broke
                                         THEN <<[msg |-> "tool_broken", value |-> 0]>>
                                         ELSE <<>>)])
                      : o \in PatternOutcomes(get_destruction_pattern(tool_type), 1, b,
                                              tool_type, st.cs, <<>>, 0)}
            ELSE BreakingOutcomes(j + 1, st1)

update_voxel_breaking_system ==
    /\ pc = "advance"
    /\ \E o \in BreakingOutcomes(1, [cs |-> chunk_system, tool |-> tool,
                                     breaking |-> breaking, cmds |-> NoCommands,
                                     log |-> <<>>]) :
          /\ chunk_system' = o.cs
          /\ tool' = o.tool
          /\ commands' = o.cmds
          /\ breaking' = ApplyBreaking(o.breaking, o.cmds)
          /\ drops' = ApplyDrops(drops, o.cmds)
          /\ log' = o.log
    /\ pc' = "simulate"
    /\ UNCHANGED <<chunk_map, column_meshes, chunk_meshes, frame, elapsed, delta, cameras,
                   has_player>>

(***************************************************************************)
(* drops.rs                                                                *)
(***************************************************************************)
\* the age test with its operands exchanged
should_despawn_Swapped(drop, current_time) == drop.spawn_time - current_time > DESPAWN_AGE

\* VoxelDrop::should_despawn
should_despawn(drop, current_time) == current_time - drop.spawn_time > DESPAWN_AGE

\* the density lookup of the downward search of drops.rs for one sample
LegacyDensityAt(test_pos, cs) ==
    LET w == world_to_voxel_3d(test_pos)
    IN IF w[1] \in DOMAIN cs.base_chunks /\ InChunk(w[2])
       THEN get_density(cs.base_chunks[w[1]], w[2])
       ELSE -1

\* drops.rs find_ground_height: samples position.y, position.y - 10 cm, ...
\* while above -20 m, and returns the first sample with positive density plus
\* 0.5 m, or the default.  The step is the edge of a voxel, so one sample
\* falls in each voxel of the column below the start, and only the voxels
\* whose density is tracked can have a positive one.
drops_find_ground_height(position, cs) ==
    LET column == {v \in DensityWindow : v[1] = position[1] \div VOXEL_SIZE
                                  /\ v[3] = position[3] \div VOXEL_SIZE}
        sample(v) == v[2] * VOXEL_SIZE + (position[2] % VOXEL_SIZE)
        hits == {sample(v) : v \in {u \in column :
                    /\ sample(u) <= position[2]
                    /\ sample(u) > LEGACY_GROUND_FLOOR
                    /\ LegacyDensityAt(<<position[1], sample(u), position[3]>>, cs) > 0}}
    IN IF hits = {} THEN LEGACY_GROUND_DEFAULT
       ELSE (CHOOSE t \in hits : \A u \in hits : t >= u) + LEGACY_GROUND_DEFAULT

\* the pickup delay test with an inclusive comparison
CollectReady_Inclusive(drop, current_time) == current_time - drop.spawn_time >= COLLECT_DELAY

\* if time.elapsed_secs() - drop.spawn_time > 1.0
CollectReady(drop, current_time) == current_time - drop.spawn_time > COLLECT_DELAY

\* the body of the loop with the bounce keeping the sign of the velocity
UpdateDrop_SignedBounce(drop, dt, current_time, cs) ==
    LET moved == <<drop.translation[1] + MulRatio(drop.velocity[1], dt, TimeUnitsPerSecond),
                   drop.translation[2] + MulRatio(drop.velocity[2], dt, TimeUnitsPerSecond),
                   drop.translation[3] + MulRatio(drop.velocity[3], dt, TimeUnitsPerSecond)>>
        vy == drop.velocity[2] - MulRatio(GRAVITY_DROP, dt, TimeUnitsPerSecond)
        ground_height == drops_find_ground_height(moved, cs)
        bounce == moved[2] <= ground_height
    IN [drop EXCEPT
          !.translation = IF bounce THEN <<moved[1], ground_height, moved[3]>> ELSE moved,
          !.velocity = <<MulRatio(drop.velocity[1], 98, 100),
                         IF bounce THEN MulRatio(vy, 3, 10) ELSE vy,
                         MulRatio(drop.velocity[3], 98, 100)>>,
          !.can_collect = IF CollectReady(drop, current_time) THEN TRUE ELSE @]

\* the body of the loop of update_drops_system for one drop
UpdateDrop(drop, dt, current_time, cs) ==
    LET moved == <<drop.translation[1] + MulRatio(drop.velocity[1], dt, TimeUnitsPerSecond),
                   drop.translation[2] + MulRatio(drop.velocity[2], dt, TimeUnitsPerSecond),
                   drop.translation[3] + MulRatio(drop.velocity[3], dt, TimeUnitsPerSecond)>>
        vy == drop.velocity[2] - MulRatio(GRAVITY_DROP, dt, TimeUnitsPerSecond)
        vx == MulRatio(drop.velocity[1], 98, 100)
        vz == MulRatio(drop.velocity[3], 98, 100)
        ground_height == drops_find_ground_height(moved, cs)
        bounce == moved[2] <= ground_height
    IN [drop EXCEPT
          !.translation = IF bounce THEN <<moved[1], ground_height, moved[3]>> ELSE moved,
          !.velocity = <<vx, IF bounce THEN MulRatio(Abs(vy), 3, 10) ELSE vy, vz>>,
          !.can_collect = IF CollectReady(drop, current_time) THEN TRUE ELSE @]

update_drops_system ==
    /\ pc = "simulate"
    /\ drops' = [i \in 1..Len(drops) |-> UpdateDrop(drops[i], delta, elapsed, chunk_system)]
    /\ commands' = NoCommands
    /\ log' = <<>>
    /\ pc' = "collect"
    /\ UNCHANGED <<chunk_map, column_meshes, chunk_meshes, frame, elapsed, delta, cameras,
                   has_player, tool, chunk_system, breaking>>

\* the collect pass without the test of the collectible flag
collect_drops_IgnoreFlag(player_translation) ==
    /\ pc = "collect"
    /\ LET cmds ==
            IF ~has_player THEN NoCommands
            ELSE [NoCommands EXCEPT !.despawn_drops =
                    {i \in 1..Len(drops) :
                        Within(player_translation, drops[i].translation, COLLECT_RADIUS)}]
       IN /\ commands' = cmds
          /\ drops' = ApplyDrops(drops, cmds)
          /\ log' = [k \in 1..Cardinality(cmds.despawn_drops) |->
                        [msg |-> "collected", value |-> 0]]
    /\ pc' = "clean"
    /\ UNCHANGED <<chunk_map, column_meshes, chunk_meshes, frame, elapsed, delta, cameras,
                   has_player, tool, chunk_system, breaking>>

\* player_translation is the Transform translation of the player, if any
collect_drops(player_translation) ==
    /\ pc = "collect"
    /\ LET cmds ==
            IF ~has_player THEN NoCommands
            ELSE [NoCommands EXCEPT !.despawn_drops =
                    {i \in 1..Len(drops) :
                        /\ drops[i].can_collect
                        /\ Within(player_translation, drops[i].translation,
                                  COLLECT_RADIUS)}]
       IN /\ commands' = cmds
          /\ drops' = ApplyDrops(drops, cmds)
          /\ log' = [k \in 1..Cardinality(cmds.despawn_drops) |->
                        [msg |-> "collected", value |-> 0]]
    /\ pc' = "clean"
    /\ UNCHANGED <<chunk_map, column_meshes, chunk_meshes, frame, elapsed, delta, cameras,
                   has_player, tool, chunk_system, breaking>>

collect_drop_system == \E player_translation \in PlayerPositions : collect_drops(player_translation)

clean_old_drops_system ==
    /\ pc = "clean"
    /\ LET cmds == [NoCommands EXCEPT !.despawn_drops =
                      {i \in 1..Len(drops) : should_despawn(drops[i], elapsed)}]
       IN /\ commands' = cmds
          /\ drops' = ApplyDrops(drops, cmds)
          /\ log' = [k \in 1..Cardinality(cmds.despawn_drops) |->
                        [msg |-> "despawned", value |-> 0]]
    /\ pc' = "begin"
    /\ UNCHANGED <<chunk_map, column_meshes, chunk_meshes, frame, elapsed, delta, cameras,
                   has_player, tool, chunk_system, breaking>>

(***************************************************************************)
(* Specification                                                           *)
(***************************************************************************)
Next ==
    \/ BeginTick
    \/ start_voxel_breaking_system
    \/ update_voxel_breaking_system
    \/ update_drops_system
    \/ collect_drop_system
    \/ clean_old_drops_system

Spec == Init /\ [][Next]_vars

\* The drop life cycle in the configuration main.rs and spawn_player build:
\* one player carrying Tool::new(Shovel), one camera
InitDrops ==
    /\ pc = "begin"
    /\ frame = 0
    /\ elapsed = 0
    /\ delta = 0
    /\ cameras = 1
    /\ has_player = TRUE
    /\ tool = NewTool("Shovel")
    /\ \E height \in InitHeights :
          chunk_system = [base_chunks |-> [c \in StoredChunks |-> BaseChunkNew(c, height)],
                          player_position |-> <<0, 0, 0>>]
    /\ breaking = <<>>
    /\ drops = <<>>
    /\ commands = NoCommands
    /\ log = <<>>
    /\ chunk_meshes = SetupMeshes(chunk_system)
    /\ chunk_map = <<>>
    /\ column_meshes = <<>>

NextDrops ==
    \/ BeginTickDrops
    \/ start_voxel_breaking_system
    \/ update_voxel_breaking_system
    \/ update_drops_system
    \/ collect_drop_system
    \/ clean_old_drops_system

SpecDrops == InitDrops /\ [][NextDrops]_vars

TypeOK ==
    /\ pc \in {"begin", "detect", "advance", "simulate", "collect", "clean"}
    /\ frame >= 0
    /\ elapsed >= 0
    /\ delta >= 0
    /\ \A i \in 1..Len(breaking) : breaking[i].progress >= 0 /\ breaking[i].break_time > 0

(***************************************************************************)
(* chunk.rs: the operations of DynamicChunkSystem.  The store starts empty  *)
(* (DynamicChunkSystem::new) and is driven by calls of get_or_create_chunk, *)
(* of BaseChunk::set_voxel_type on a stored chunk and of                    *)
(* update_player_position.  A chunk is tracked on the grid of local indices *)
(* GridIndex x GridLevels x GridIndex, borders included.                    *)
(***************************************************************************)
\* LOD_DISTANCES in cm
LOD_DISTANCES == <<5000, 10000, 20000, 40000, 80000>>

\* the chunk coordinates a call may name: the origin and a neighbour on each
\* axis, on the negative side too
ChunkCoords == {<<0, 0, 0>>, <<1, 0, 0>>, <<-1, 0, 0>>, <<0, 1, 0>>, <<0, 0, -1>>}

\* local x and z indices tracked: both borders and their neighbours
GridIndex == {0, 1, BASE_CHUNK_SIZE - 1, BASE_CHUNK_SIZE}

\* local y indices tracked: both borders and the levels around the surface
GridLevels == {0, 15, 16, BASE_CHUNK_SIZE - 1, BASE_CHUNK_SIZE}

GridCorners == {<<x, y, z>> : x \in GridIndex, y \in GridLevels, z \in GridIndex}

GridCells == {p \in GridCorners : InChunk(p)}

\* the columns <<x, z>> of world voxel coordinates under the tracked corners
GridColumns ==
    {<<c[1] * BASE_CHUNK_SIZE + x, c[3] * BASE_CHUNK_SIZE + z>> :
        c \in ChunkCoords, x \in GridIndex, z \in GridIndex}

\* terrain heights (cm) Perlin::new(12345) may yield per column of world
\* coordinates: 1.5 m + noise * 0.5 m with noise in [-1, 1]
NoiseFields ==
    {[c \in GridColumns |-> 130 + 10 * ((3 * c[1] + 2 * c[2] + k) % 5)] : k \in {0, 2}}

\* the cells a caller clears with set_voxel_type
BreakCells == {<<BASE_CHUNK_SIZE - 1, 0, 0>>}

\* the positions (cm) update_player_position is called with: along +x, at the
\* origin and at every threshold from the origin of chunk (0, 0, 0), which puts
\* the chunks on either side of it on either side of the threshold
LodPositions == {<<x, 0, 0>> : x \in {0, 5000, 10000, 20000, 40000, 80000}}

\* DynamicChunkSystem::new
DynamicChunkSystemNew(noise_generator) ==
    [base_chunks |-> [c \in {} |-> None],
     player_position |-> <<0, 0, 0>>,
     noise_generator |-> noise_generator]

\* Squares past 2^31: a number n is kept as <<n \div WideBase, n % WideBase>>.
WideBase == 1000 * 1000

\* x * x for |x| < 1000000
WideSquare(x) ==
    LET a == Abs(x) \div 1000
        b == Abs(x) % 1000
        mid == 2 * a * b * 1000 + b * b
    IN <<a * a + mid \div WideBase, mid % WideBase>>

WideAdd(u, v) == <<u[1] + v[1] + (u[2] + v[2]) \div WideBase, (u[2] + v[2]) % WideBase>>

WideLeq(u, v) == u[1] < v[1] \/ (u[1] = v[1] /\ u[2] <= v[2])

RECURSIVE WideSqrt(_, _, _)
\* the largest r in lo..hi with r * r <= w
WideSqrt(w, lo, hi) ==
    IF lo >= hi THEN lo
    ELSE LET mid == (lo + hi + 1) \div 2
         IN IF WideLeq(WideSquare(mid), w) THEN WideSqrt(w, mid, hi)
            ELSE WideSqrt(w, lo, mid - 1)

\* Vec3::distance, rounded down to the centimetre: the thresholds it is compared
\* with are whole centimetres, so the comparisons come out as on the exact value
Vec3Distance(a, b) ==
    IF a[2] = b[2] /\ a[3] = b[3] THEN Abs(a[1] - b[1])
    ELSE
    WideSqrt(WideAdd(WideAdd(WideSquare(a[1] - b[1]), WideSquare(a[2] - b[2])),
                     WideSquare(a[3] - b[3])),
             0, Abs(a[1] - b[1]) + Abs(a[2] - b[2]) + Abs(a[3] - b[3]))

\* the levels with every threshold on the side of the finer level
from_distance_Inclusive(distance) ==
    IF distance <= LOD_DISTANCES[1] THEN "Ultra"
    ELSE IF distance <= LOD_DISTANCES[2] THEN "High"
    ELSE IF distance <= LOD_DISTANCES[3] THEN "Medium"
    ELSE IF distance <= LOD_DISTANCES[4] THEN "Low"
    ELSE "Minimal"

\* ChunkLOD::from_distance of chunk.rs
from_distance(distance) ==
    IF distance < LOD_DISTANCES[1] THEN "Ultra"
    ELSE IF distance < LOD_DISTANCES[2] THEN "High"
    ELSE IF distance < LOD_DISTANCES[3] THEN "Medium"
    ELSE IF distance < LOD_DISTANCES[4] THEN "Low"
    ELSE "Minimal"

\* ChunkLOD::from_distance of lod_system.rs: the arms of its match, in order
lod_system_from_distance(distance) ==
    IF distance < LOD_DISTANCES[1] THEN "Ultra"
    ELSE IF distance < LOD_DISTANCES[2] THEN "High"
    ELSE IF distance < LOD_DISTANCES[3] THEN "Medium"
    ELSE IF distance < LOD_DISTANCES[4] THEN "Low"
    ELSE IF distance < LOD_DISTANCES[5] THEN "Minimal"
    ELSE "Minimal"

\* the world position (cm) of the origin of the chunk at pos
chunk_world_pos(pos) ==
    <<pos[1] * BASE_CHUNK_SIZE * VOXEL_SIZE,
      pos[2] * BASE_CHUNK_SIZE * VOXEL_SIZE,
      pos[3] * BASE_CHUNK_SIZE * VOXEL_SIZE>>

update_chunk_lods(cs) ==
    [cs EXCEPT !.base_chunks =
        [pos \in DOMAIN cs.base_chunks |->
            LET chunk == cs.base_chunks[pos]
                distance == Vec3Distance(chunk_world_pos(pos), cs.player_position)
                new_lod == from_distance(distance)
            IN IF chunk.lod_level # new_lod
               THEN [chunk EXCEPT !.lod_level = new_lod, !.dirty = TRUE]
               ELSE chunk]]

\* the update run on the position of the call before
update_player_position_Stale(cs, new_position) ==
    [update_chunk_lods(cs) EXCEPT !.player_position = new_position]

update_player_position(cs, new_position) ==
    update_chunk_lods([cs EXCEPT !.player_position = new_position])

\* the entry filled by a fresh BaseChunk::new whether or not one is stored
get_or_create_chunk_Regenerate(cs, position) ==
    [cs EXCEPT !.base_chunks =
        [c \in (DOMAIN cs.base_chunks) \cup {position} |->
            IF c = position
            THEN BaseChunkOver(position, cs.noise_generator, GridCells, GridCorners)
            ELSE cs.base_chunks[c]]]

\* the insertion with a noise that shifts with the number of chunks stored
get_or_create_chunk_CountSeeded(cs, position) ==
    IF position \in DOMAIN cs.base_chunks THEN cs
    ELSE [cs EXCEPT !.base_chunks =
            [c \in (DOMAIN cs.base_chunks) \cup {position} |->
                IF c = position
                THEN BaseChunkOver(position,
                                   [col \in DOMAIN cs.noise_generator |->
                                       cs.noise_generator[col]
                                       + 10 * Cardinality(DOMAIN cs.base_chunks)],
                                   GridCells, GridCorners)
                ELSE cs.base_chunks[c]]]

\* base_chunks.entry(position).or_insert_with(|| BaseChunk::new(..)): the
\* store after the call; the chunk returned is its entry at position
get_or_create_chunk(cs, position) ==
    IF position \in DOMAIN cs.base_chunks THEN cs
    ELSE [cs EXCEPT !.base_chunks =
            [c \in (DOMAIN cs.base_chunks) \cup {position} |->
                IF c = position
                THEN BaseChunkOver(position, cs.noise_generator, GridCells, GridCorners)
                ELSE cs.base_chunks[c]]]

InitStore ==
    /\ pc = "begin"
    /\ frame = 0
    /\ elapsed = 0
    /\ delta = 0
    /\ cameras = 1
    /\ has_player = FALSE
    /\ tool = NewTool("None")
    /\ \E noise_generator \in NoiseFields :
          chunk_system = DynamicChunkSystemNew(noise_generator)
    /\ breaking = <<>>
    /\ drops = <<>>
    /\ commands = NoCommands
    /\ log = <<>>
    /\ chunk_meshes = SetupMeshes(chunk_system)
    /\ chunk_map = <<>>
    /\ column_meshes = <<>>

\* a call chunk_system.get_or_create_chunk(position)
GetOrCreateChunk(position) ==
    /\ chunk_system' = get_or_create_chunk(chunk_system, position)
    /\ UNCHANGED <<chunk_map, column_meshes, chunk_meshes, pc, frame, elapsed, delta,
                   cameras, has_player, tool, breaking, drops, commands, log>>

\* a call chunk.set_voxel_type(x, y, z, VoxelType::Air) on the stored chunk at
\* position, for a solid voxel p
SetVoxelAir(position, p) ==
    /\ position \in DOMAIN chunk_system.base_chunks
    /\ is_solid(get_voxel_type(chunk_system.base_chunks[position], p))
    /\ chunk_system' = [chunk_system EXCEPT !.base_chunks[position] =
                            set_voxel_type(@, p, "Air")]
    /\ UNCHANGED <<chunk_map, column_meshes, chunk_meshes, pc, frame, elapsed, delta,
                   cameras, has_player, tool, breaking, drops, commands, log>>

\* a call chunk_system.update_player_position(new_position)
UpdatePlayerPosition(new_position) ==
    /\ chunk_system' = update_player_position(chunk_system, new_position)
    /\ UNCHANGED <<chunk_map, column_meshes, chunk_meshes, pc, frame, elapsed, delta,
                   cameras, has_player, tool, breaking, drops, commands, log>>

StoreGetOrCreate == \E position \in ChunkCoords : GetOrCreateChunk(position)

StoreSetVoxel == \E position \in ChunkCoords, p \in BreakCells : SetVoxelAir(position, p)

StoreUpdatePlayer == \E new_position \in LodPositions : UpdatePlayerPosition(new_position)

NextStore ==
    \/ StoreGetOrCreate
    \/ StoreSetVoxel
    \/ StoreUpdatePlayer

SpecStore == InitStore /\ [][NextStore]_vars

(***************************************************************************)
(* The raycaster over worlds that earlier play has dug down to a few solid *)
(* voxels, some of them in chunks next to coordinates the store does not   *)
(* hold: the pipeline without a player (bare hands), one camera.           *)
(***************************************************************************)
\* number of frames a run of the raycaster specification takes
RayFrames == 2

\* camera poses (cm): along +x, along -x, two diagonals of the x-z plane that
\* never cross a voxel corner, and straight down
RayAims == {[translation |-> <<5, 5, 5>>, forward |-> <<1, 0, 0>>],
            [translation |-> <<5, 5, 5>>, forward |-> <<-1, 0, 0>>],
            [translation |-> <<2, 5, 5>>, forward |-> <<1, 0, 1>>],
            [translation |-> <<2, 5, 5>>, forward |-> <<2, 0, 1>>],
            [translation |-> <<5, 25, 5>>, forward |-> <<0, -1, 0>>]}

\* a chunk of which only the voxels of solids (world voxel coordinates) are
\* left, all of them Stone of the bottom layer
RayChunk(position, solids) ==
    LET locals == {LocalOf(v) : v \in {w \in solids : ChunkOf(w) = position}}
    IN [position |-> position,
        densities |-> [p \in locals |-> 150],
        voxel_types |-> [p \in locals |-> "Stone"],
        lod_level |-> "Ultra",
        dirty |-> TRUE]

RayStore(stored, solids) ==
    [base_chunks |-> [c \in stored |-> RayChunk(c, solids)],
     player_position |-> <<0, 0, 0>>]

\* the worlds: one far voxel on a diagonal; one near voxel; one voxel behind
\* a coordinate the store does not hold; voxels on either side of the origin,
\* one of them behind another; two voxels of one column, the upper one high
\* enough for the ground search above it to start in a chunk the store lacks
RayWorlds ==
    {RayStore({<<0, 0, 0>>}, {<<26, 0, 26>>}),
     RayStore({<<0, 0, 0>>}, {<<4, 0, 2>>}),
     RayStore({<<1, 0, 0>>}, {<<34, 0, 0>>}),
     RayStore({<<0, 0, 0>>, <<-1, 0, 0>>}, {<<-3, 0, 0>>, <<6, 0, 0>>, <<9, 0, 0>>}),
     RayStore({<<0, 0, 0>>}, {<<0, 1, 0>>, <<0, 14, 0>>})}

InitRay ==
    /\ pc = "begin"
    /\ frame = 0
    /\ elapsed = 0
    /\ delta = 0
    /\ cameras = 1
    /\ has_player = FALSE
    /\ tool = NewTool("None")
    /\ chunk_system \in RayWorlds
    /\ breaking = <<>>
    /\ drops = <<>>
    /\ commands = NoCommands
    /\ log = <<>>
    /\ chunk_meshes = SetupMeshes(chunk_system)
    /\ chunk_map = <<>>
    /\ column_meshes = <<>>

BeginTickRay == BeginFrame(DtChoices, RayFrames)

start_voxel_breaking_ray ==
    \E pressed \in BOOLEAN, camera_transform \in RayAims :
        start_voxel_breaking(pressed, camera_transform)

NextRay ==
    \/ BeginTickRay
    \/ start_voxel_breaking_ray
    \/ update_voxel_breaking_system
    \/ update_drops_system
    \/ collect_drop_system
    \/ clean_old_drops_system

SpecRay == InitRay /\ [][NextRay]_vars

(***************************************************************************)
(* The pipeline with the left button held and the camera at rest: every    *)
(* tick the detect pass sees the button pressed and casts the same ray.    *)
(* Bevy runs every system of the chain in every frame, which the weak      *)
(* fairness of the step states.                                            *)
(***************************************************************************)
HoldFrames == 6

\* per-tick elapsed times while the button is held: 2 s and 60 s
HoldDtChoices == {600, 18000}

\* the camera looks straight down on column 31
HoldAim == [translation |-> <<315, 300, 5>>, forward |-> <<0, -1, 0>>]

InitHold ==
    /\ pc = "begin"
    /\ frame = 0
    /\ elapsed = 0
    /\ delta = 0
    /\ cameras = 1
    /\ has_player \in BOOLEAN
    /\ \E t \in ToolTypes : \E d \in InitDurabilities(t) :
          tool = [tool_type |-> t, current_durability |-> d]
    /\ has_player = FALSE => tool = NewTool("None")
    /\ \E height \in InitHeights :
          chunk_system = [base_chunks |-> [c \in StoredChunks |-> BaseChunkNew(c, height)],
                          player_position |-> <<0, 0, 0>>]
    /\ breaking = <<>>
    /\ drops = <<>>
    /\ commands = NoCommands
    /\ log = <<>>
    /\ chunk_meshes = SetupMeshes(chunk_system)
    /\ chunk_map = <<>>
    /\ column_meshes = <<>>

BeginTickHold == BeginFrame(HoldDtChoices, HoldFrames)

start_voxel_breaking_hold == start_voxel_breaking(TRUE, HoldAim)

NextHold ==
    \/ BeginTickHold
    \/ start_voxel_breaking_hold
    \/ update_voxel_breaking_system
    \/ update_drops_system
    \/ collect_drop_system
    \/ clean_old_drops_system

\* the stage that follows each stage of the chain main.rs schedules
NextStage(stage) ==
    CASE stage = "begin" -> "detect"
      [] stage = "detect" -> "advance"
      [] stage = "advance" -> "simulate"
      [] stage = "simulate" -> "collect"
      [] stage = "collect" -> "clean"
      [] stage = "clean" -> "begin"

\* the step of the schedule as the stage counter shows it: the next system of
\* the chain runs, a new frame starting only while frames are left.  Every
\* system can run whenever its stage is reached, so this step is enabled
\* exactly when a step of NextHold is
RunsNextSystem ==
    /\ pc = "begin" => frame < HoldFrames
    /\ pc' = NextStage(pc)

SpecHold == InitHold /\ [][NextHold]_vars /\ WF_pc(RunsNextSystem)

(***************************************************************************)
(* meshing.rs: the cube mesh of a columnar chunk.  A columnar chunk has a  *)
(* position <<x, z>> and a density for every cell <<x, y, z>> with x, z in *)
(* 0..CHUNK_SIZE-1 and y in 0..WORLD_HEIGHT-1; the cells of MeshCells are  *)
(* tracked and every other cell is empty (-1).  A mesh is kept as the set  *)
(* of the faces add_face was called for, with the lengths of its position  *)
(* and index lists.                                                        *)
(***************************************************************************)
WORLD_HEIGHT == 64

Faces ==
    [Top |-> <<0, 1, 0>>, Bottom |-> <<0, -1, 0>>, Right |-> <<1, 0, 0>>,
     Left |-> <<-1, 0, 0>>, Front |-> <<0, 0, 1>>, Back |-> <<0, 0, -1>>]

\* the cells whose density the model tracks: a cell of the chunk's low x edge
\* on the floor of the world, a column on its high x edge with two cells on
\* the floor and one in the top layer
MeshCells == {<<0, 0, 0>>, <<31, 0, 0>>, <<31, 1, 0>>, <<31, WORLD_HEIGHT - 1, 0>>}

MeshPositions == {<<0, 0>>, <<1, 0>>}

\* Chunk::get_density of the columnar chunk
ColumnDensity(chunk, x, y, z) ==
    IF <<x, y, z>> \in DOMAIN chunk.densities THEN chunk.densities[<<x, y, z>>] ELSE -1

\* the test of one face: TRUE when add_face is to be called for it
should_render_face(chunk, cm, x, y, z, dx, dy, dz) ==
    LET neighbor_x == x + dx
        neighbor_y == y + dy
        neighbor_z == z + dz
    IN IF /\ neighbor_x >= 0 /\ neighbor_x < BASE_CHUNK_SIZE
          /\ neighbor_y >= 0 /\ neighbor_y < WORLD_HEIGHT
          /\ neighbor_z >= 0 /\ neighbor_z < BASE_CHUNK_SIZE
       THEN ColumnDensity(chunk, neighbor_x, neighbor_y, neighbor_z) <= 0
       ELSE IF neighbor_y < 0 THEN FALSE
       ELSE IF neighbor_y >= WORLD_HEIGHT THEN TRUE
       ELSE LET chunk_offset_x == IF neighbor_x < 0 THEN -1
                                  ELSE IF neighbor_x >= BASE_CHUNK_SIZE THEN 1 ELSE 0
                chunk_offset_z == IF neighbor_z < 0 THEN -1
                                  ELSE IF neighbor_z >= BASE_CHUNK_SIZE THEN 1 ELSE 0
                neighbor_chunk_pos == <<chunk.position[1] + chunk_offset_x,
                                        chunk.position[2] + chunk_offset_z>>
            IN IF neighbor_chunk_pos \in DOMAIN cm
               THEN ColumnDensity(cm[neighbor_chunk_pos], neighbor_x % BASE_CHUNK_SIZE,
                                  neighbor_y, neighbor_z % BASE_CHUNK_SIZE) <= 0
               ELSE TRUE

\* the loop over the cells: a cell of density <= 0 is skipped; add_face appends
\* 4 positions and 6 indices for every face the test lets through
generate_mesh_with_neighbors(chunk, cm) ==
    LET faces == {cf \in (DOMAIN chunk.densities) \X (DOMAIN Faces) :
                    /\ ColumnDensity(chunk, cf[1][1], cf[1][2], cf[1][3]) > 0
                    /\ should_render_face(chunk, cm, cf[1][1], cf[1][2], cf[1][3],
                                          Faces[cf[2]][1], Faces[cf[2]][2],
                                          Faces[cf[2]][3])}
    IN [faces |-> faces,
        positions |-> 4 * Cardinality(faces),
        indices |-> 6 * Cardinality(faces)]

\* a columnar chunk at position whose cells of solid are solid
ColumnChunk(position, solid) ==
    [position |-> position,
     densities |-> [c \in MeshCells |-> IF c \in solid THEN 10 ELSE -10]]

InitMesh ==
    /\ pc = "begin"
    /\ frame = 0
    /\ elapsed = 0
    /\ delta = 0
    /\ cameras = 1
    /\ has_player = FALSE
    /\ tool = NewTool("None")
    /\ chunk_system = [base_chunks |-> <<>>, player_position |-> <<0, 0, 0>>]
    /\ breaking = <<>>
    /\ drops = <<>>
    /\ commands = NoCommands
    /\ log = <<>>
    /\ chunk_meshes = <<>>
    /\ chunk_map = <<>>
    /\ column_meshes = <<>>

\* a columnar chunk is generated and entered in the ChunkMap
SpawnColumn(position, solid) ==
    /\ position \notin DOMAIN chunk_map
    /\ chunk_map' = [q \in DOMAIN chunk_map \cup {position} |->
                        IF q = position THEN ColumnChunk(position, solid)
                        ELSE chunk_map[q]]
    /\ UNCHANGED <<column_meshes, chunk_meshes, pc, frame, elapsed, delta, cameras,
                   has_player, tool, chunk_system, breaking, drops, commands, log>>

\* the mesh of the chunk at position is extracted against the chunks the map
\* holds
RemeshColumn(position) ==
    /\ position \in DOMAIN chunk_map
    /\ column_meshes' = [q \in DOMAIN column_meshes \cup {position} |->
                            IF q = position
                            THEN generate_mesh_with_neighbors(chunk_map[position],
                                                              chunk_map)
                            ELSE column_meshes[q]]
    /\ UNCHANGED <<chunk_map, chunk_meshes, pc, frame, elapsed, delta, cameras,
                   has_player, tool, chunk_system, breaking, drops, commands, log>>

NextMesh ==
    \/ \E position \in MeshPositions, solid \in SUBSET MeshCells :
          SpawnColumn(position, solid)
    \/ \E position \in MeshPositions : RemeshColumn(position)

SpecMesh == InitMesh /\ [][NextMesh]_vars

(***************************************************************************)
(* Properties                                                              *)
(***************************************************************************)
\* a and b name the same voxel: the same chunk and the same local coordinate
SameTarget(a, b) == a.chunk_pos = b.chunk_pos /\ a.local_pos = b.local_pos

\* the VoxelBreaking entities the advance pass about to run completes
Resolved == {j \in 1..Len(breaking) : AdvanceProgress(breaking[j], delta) >= ProgressOne}

LogHas(lines, msg) == \E k \in 1..Len(lines) : lines[k].msg = msg

\* the material of the voxel at local coordinate p of the chunk at chunk_pos
MaterialAt(cs, chunk_pos, p) == get_voxel_type(cs.base_chunks[chunk_pos], p)

\* C1: at most one VoxelBreaking entity exists in every state, and when the
\* detect pass hits a solid voxel that no existing entity targets while one
\* exists, exactly one entity exists after the pass and it targets the voxel hit.
C1_SingleTarget ==
    /\ [](Len(breaking) <= 1)
    /\ [][\A camera_transform \in Aims :
            LET hit == DetectHit(camera_transform)
            IN (/\ pc = "detect"
                /\ cameras = 1
                /\ breaking # <<>>
                /\ hit.some
                /\ \A i \in 1..Len(breaking) : ~SameTarget(breaking[i], hit)
                /\ start_voxel_breaking(TRUE, camera_transform))
               => /\ Len(breaking') = 1
                  /\ SameTarget(breaking'[1], hit)]_vars

\* the detect pass has just replaced the entity of one voxel by that of another
C1_Witness ==
    /\ pc = "advance"
    /\ commands.despawn_breaking # {}
    /\ Len(commands.spawn_breaking) = 1
    /\ Len(breaking) = 1
    /\ SameTarget(breaking[1], commands.spawn_breaking[1])

\* C2: in every state the progress of every VoxelBreaking entity lies in
\* [0, 1), and an advance pass that brings an entity's progress to 1.0 or more
\* resolves the break in that pass: the entity is despawned, the crater is
\* logged, the target voxel is no longer solid and no entity targets it.
C2_ProgressBelowOne ==
    /\ [](\A i \in 1..Len(breaking) :
            breaking[i].progress >= 0 /\ breaking[i].progress < ProgressOne)
    /\ [][pc = "advance" =>
            \A j \in Resolved :
                /\ j \in commands'.despawn_breaking
                /\ LogHas(log', "crater")
                /\ ~is_solid(MaterialAt(chunk_system', breaking[j].chunk_pos,
                                        breaking[j].local_pos))
                /\ \A k \in 1..Len(breaking') : ~SameTarget(breaking'[k], breaking[j])]_vars

\* an advance pass has just resolved a break and left no entity behind
C2_Witness ==
    /\ pc = "simulate"
    /\ commands.despawn_breaking # {}
    /\ LogHas(log, "crater")
    /\ breaking = <<>>

\* the cells of the chunk of b that the resolution of b destroys: the in-chunk
\* cells target + offset, over the pattern of the equipped tool, that are solid
DestroyedCells(b) ==
    {p \in {VAdd(b.local_pos, get_destruction_pattern(EquippedToolType)[i]) :
                i \in 1..Len(get_destruction_pattern(EquippedToolType))} :
        InChunk(p) /\ is_solid(MaterialAt(chunk_system, b.chunk_pos, p))}

\* C3: when a break is resolved, every in-chunk solid voxel of the equipped
\* tool's pattern has its material set to Air and its density negative.
C3_DestroyedVoxelsBecomeAir ==
    [][pc = "advance" =>
        \A j \in Resolved :
            \A p \in DestroyedCells(breaking[j]) :
                /\ MaterialAt(chunk_system', breaking[j].chunk_pos, p) = "Air"
                /\ get_density(chunk_system'.base_chunks[breaking[j].chunk_pos], p) < 0]_vars

\* C4: an entity the detect pass spawns has progress 0 and the break time
\* calculate_break_time gives for the material of its voxel and the equipped
\* tool; an entity of a voxel no entity targeted before starts at progress 0;
\* every advance pass an entity survives adds exactly delta / break_time to its
\* progress and leaves its break time; no other pass touches the entities.
C4_ProgressAccounting ==
    [][/\ pc = "detect" =>
            /\ \A k \in 1..Len(commands'.spawn_breaking) :
                  /\ commands'.spawn_breaking[k].progress = 0
                  /\ commands'.spawn_breaking[k].break_time =
                        calculate_break_time(
                            MaterialAt(chunk_system, commands'.spawn_breaking[k].chunk_pos,
                                       commands'.spawn_breaking[k].local_pos),
                            EquippedToolType)
            /\ \A k \in 1..Len(breaking') :
                  IF \E i \in 1..Len(breaking) : SameTarget(breaking[i], breaking'[k])
                  THEN \E i \in 1..Len(breaking) : breaking[i] = breaking'[k]
                  ELSE breaking'[k].progress = 0
       /\ pc = "advance" =>
            \A j \in 1..Len(breaking) :
                j \notin commands'.despawn_breaking
                => \E k \in 1..Len(breaking') :
                      /\ SameTarget(breaking'[k], breaking[j])
                      /\ breaking'[k].break_time = breaking[j].break_time
                      /\ breaking'[k].progress * breaking[j].break_time
                            = breaking[j].progress * breaking[j].break_time
                              + delta * ProgressOne
       /\ pc \notin {"detect", "advance"} => breaking' = breaking]_vars

\* an entity has survived more than one advance pass: its progress exceeds
\* what the last tick alone contributes
C4_Witness ==
    /\ pc = "simulate"
    /\ commands.despawn_breaking = {}
    /\ Len(breaking) = 1
    /\ breaking[1].progress * breaking[1].break_time > delta * ProgressOne

\* the outcome C5 asks of a detect pass: no VoxelBreaking entity is left,
\* nothing is spawned, and no voxel, tool or drop has changed
DetectLeavesNothing ==
    /\ breaking' = <<>>
    /\ commands'.spawn_breaking = <<>>
    /\ commands'.spawn_drops = <<>>
    /\ chunk_system' = chunk_system
    /\ tool' = tool
    /\ drops' = drops

\* C5: a detect pass run with the button released, or with the button held and
\* a raycast that finds no solid voxel, leaves no VoxelBreaking entity, spawns
\* nothing and changes no voxel, no tool and no drop.  Stated by its
\* contrapositive: a detect pass with any other outcome is not the pass of a
\* released button nor that of a raycast that misses.
C5_ReleaseOrMissCancels ==
    [][(pc = "detect" /\ ~DetectLeavesNothing)
       => \A pressed \in BOOLEAN, camera_transform \in Aims :
             ~(/\ ~pressed \/ ~DetectHit(camera_transform).some
               /\ start_voxel_breaking(pressed, camera_transform))]_vars

\* a detect pass has just discarded an entity that earlier ticks advanced
C5_Witness ==
    /\ pc = "advance"
    /\ frame >= 2
    /\ commands.despawn_breaking # {}
    /\ commands.spawn_breaking = <<>>
    /\ breaking = <<>>

\* C6: a resolution changes the material of no voxel other than a solid voxel
\* at target + offset inside the target's chunk, for an offset of the equipped
\* tool's pattern, and it makes that voxel Air; with bare hands the only voxel
\* that changes is the target; no chunk is added or removed.
C6_ResolutionFrame ==
    [][pc = "advance" =>
        /\ DOMAIN chunk_system'.base_chunks = DOMAIN chunk_system.base_chunks
        /\ \A c \in DOMAIN chunk_system.base_chunks :
              \A p \in (DOMAIN chunk_system.base_chunks[c].voxel_types)
                        \cup (DOMAIN chunk_system'.base_chunks[c].voxel_types) :
                 MaterialAt(chunk_system', c, p) # MaterialAt(chunk_system, c, p)
                 => /\ is_solid(MaterialAt(chunk_system, c, p))
                    /\ MaterialAt(chunk_system', c, p) = "Air"
                    /\ InChunk(p)
                    /\ \E j \in Resolved :
                          /\ breaking[j].chunk_pos = c
                          /\ \E i \in 1..Len(get_destruction_pattern(EquippedToolType)) :
                                p = VAdd(breaking[j].local_pos,
                                         get_destruction_pattern(EquippedToolType)[i])
                          /\ EquippedToolType = "None" => p = breaking[j].local_pos]_vars

\* the first resolution of a run, by a tool whose pattern reaches across the
\* chunk border at x = 31 | 32: the border voxel of chunk (0, 0, 0) is gone and
\* its neighbour in chunk (1, 0, 0) still stands
C6_Witness ==
    /\ pc = "simulate"
    /\ frame = 1
    /\ LogHas(log, "crater")
    /\ EquippedToolType # "None"
    /\ MaterialAt(chunk_system, <<0, 0, 0>>, <<31, 15, 0>>) = "Air"
    /\ is_solid(MaterialAt(chunk_system, <<1, 0, 0>>, <<0, 15, 0>>))

RECURSIVE DropsMatch(_, _, _, _, _, _)
\* the drops new[k], new[k + 1], ... are those the voxels destroyed between
\* old_cs and new_cs call for, taken in pattern order from offset i on: one
\* drop of the voxel's former material and of a quantity >= 1 inside the table
\* range for each, or none where the table allows the quantity 0
DropsMatch(b, i, old_cs, new_cs, new, k) ==
    IF i > Len(get_destruction_pattern(EquippedToolType)) THEN k = Len(new) + 1
    ELSE LET p == VAdd(b.local_pos, get_destruction_pattern(EquippedToolType)[i])
             old == MaterialAt(old_cs, b.chunk_pos, p)
             r == drop_range(EquippedToolType, old)
         IN IF ~(is_solid(old) /\ MaterialAt(new_cs, b.chunk_pos, p) = "Air")
            THEN DropsMatch(b, i + 1, old_cs, new_cs, new, k)
            ELSE \/ /\ r[1] = 0
                    /\ DropsMatch(b, i + 1, old_cs, new_cs, new, k)
                 \/ /\ k <= Len(new)
                    /\ new[k].voxel_type = old
                    /\ new[k].quantity >= 1
                    /\ new[k].quantity >= r[1]
                    /\ new[k].quantity <= r[2]
                    /\ DropsMatch(b, i + 1, old_cs, new_cs, new, k + 1)

C8_Durability ==
    /\ [](is_broken(tool) <=> (tool.tool_type # "None" /\ tool.current_durability = 0))
    /\ [][/\ tool'.tool_type = tool.tool_type
          /\ tool'.current_durability <= tool.current_durability
          /\ tool.tool_type = "None" => tool' = tool
          /\ pc # "advance" => tool' = tool
          /\ pc = "advance" =>
                /\ tool'.current_durability =
                      IF Resolved = {} \/ ~has_player \/ tool.tool_type = "None"
                      THEN tool.current_durability
                      ELSE IF tool.current_durability >= 1
                           THEN tool.current_durability - 1 ELSE 0
                /\ LogHas(log', "tool_broken")
                      <=> (/\ Resolved # {}
                           /\ has_player
                           /\ tool'.tool_type # "None"
                           /\ tool'.current_durability = 0)]_vars

\* a second resolution by a tool whose durability is 0: both top voxels are
\* gone, which takes one resolution in each chunk, and the tool is still at 0
C8_Witness ==
    /\ pc = "simulate"
    /\ LogHas(log, "tool_broken")
    /\ has_player
    /\ tool.tool_type # "None"
    /\ tool.current_durability = 0
    /\ MaterialAt(chunk_system, <<0, 0, 0>>, <<31, 15, 0>>) = "Air"
    /\ MaterialAt(chunk_system, <<1, 0, 0>>, <<0, 15, 0>>) = "Air"

\* C9 as stated: after an age-out pass, no drop is left whose age is 60 s or more.
C9_RemovedAtSixtySeconds ==
    pc = "begin" => \A i \in 1..Len(drops) : elapsed - drops[i].spawn_time < DESPAWN_AGE

\* C9 amended: after an age-out pass, no drop is left whose age is more than
\* 60 s, whatever its collectible flag and its distance to the player.
C9_RemovedAfterSixtySeconds ==
    pc = "begin" => \A i \in 1..Len(drops) : elapsed - drops[i].spawn_time <= DESPAWN_AGE

\* the age-out pass has just removed a drop
C9_Witness ==
    /\ pc = "begin"
    /\ commands.despawn_drops # {}
    /\ LogHas(log, "despawned")

\* C10: a drop whose age is at most 1 s is not collectible, in every state; a
\* drop is spawned not collectible; no step clears the flag of a drop it
\* keeps; the collect pass removes no drop whose age is at most 1 s.
C10_CollectDelay ==
    /\ [](\A i \in 1..Len(drops) :
            elapsed - drops[i].spawn_time <= COLLECT_DELAY => ~drops[i].can_collect)
    /\ [][/\ \A k \in 1..Len(commands'.spawn_drops) :
                /\ ~commands'.spawn_drops[k].can_collect
                /\ commands'.spawn_drops[k].spawn_time = elapsed
          /\ Len(drops') >= Len(Without(drops, commands'.despawn_drops, 1))
          /\ \A k \in 1..Len(Without(drops, commands'.despawn_drops, 1)) :
                Without(drops, commands'.despawn_drops, 1)[k].can_collect
                => drops'[k].can_collect
          /\ pc = "collect" =>
                \A i \in commands'.despawn_drops :
                    elapsed - drops[i].spawn_time > COLLECT_DELAY]_vars

\* the collect pass has just run with a drop aged exactly 1 s inside the
\* pickup radius of a player position, and the drop is still there
C10_Witness ==
    /\ pc = "clean"
    /\ has_player
    /\ \E i \in 1..Len(drops) :
          /\ elapsed - drops[i].spawn_time = COLLECT_DELAY
          /\ ~drops[i].can_collect
          /\ \E player_translation \in PlayerPositions :
                Within(player_translation, drops[i].translation, COLLECT_RADIUS)

\* d is a drop the collect pass takes for a player at player_translation: its
\* flag is set and it lies at most 2 world units away
Collectable(d, player_translation) ==
    /\ d.can_collect
    /\ \A a \in 1..3 : Abs(player_translation[a] - d.translation[a]) <= COLLECT_RADIUS
    /\ DistSq(player_translation, d.translation) <= COLLECT_RADIUS * COLLECT_RADIUS

\* C11: the collect pass run for a player at player_translation leaves exactly
\* the drops whose flag is clear or whose distance to the player exceeds 2
\* world units, unchanged and in their order, and removes every other drop;
\* without a player it leaves every drop.
C11_CollectRule ==
    [][pc = "collect" =>
        \A player_translation \in PlayerPositions :
            collect_drops(player_translation) =>
                LET Kept(d) == ~Collectable(d, player_translation)
                IN /\ has_player => drops' = SelectSeq(drops, Kept)
                   /\ ~has_player => drops' = drops
                   /\ commands'.spawn_drops = <<>>]_vars

\* the collect pass has just taken the drop of an earlier tick and left the
\* drop the same tick's resolution spawned
C11_Witness ==
    /\ pc = "clean"
    /\ has_player
    /\ commands.despawn_drops # {}
    /\ LogHas(log, "collected")
    /\ \E i \in 1..Len(drops) : drops[i].spawn_time = elapsed /\ ~drops[i].can_collect

\* the pass that runs after the pass at pc in the chain of main.rs
NextPass(p) ==
    CASE p = "begin" -> "detect"
      [] p = "detect" -> "advance"
      [] p = "advance" -> "simulate"
      [] p = "simulate" -> "collect"
      [] p = "collect" -> "clean"
      [] p = "clean" -> "begin"

\* the drops spawned in the current tick
SpawnedThisTick(seq) == SelectSeq(seq, LAMBDA d : d.spawn_time = elapsed)

\* C12: every step runs the pass that follows the last one in the order
\* detect, advance, simulate, collect, age out, and only the frame start moves
\* the clock; what a pass queues is in place when the next one runs: after the
\* detect pass the entities are those it left, after the advance pass the
\* drops it spawned are the last of the drops and the entities it resolved are
\* gone; the simulate and the collect pass of the tick find every drop the
\* tick spawned, not collectible, and leave it so.
C12_PassOrder ==
    /\ [][/\ pc' = NextPass(pc)
          /\ pc # "begin" => (elapsed' = elapsed /\ delta' = delta /\ frame' = frame)
          /\ pc = "advance" =>
                Len(breaking') = Len(breaking) - Cardinality(commands'.despawn_breaking)
          /\ pc \in {"simulate", "collect"} =>
                /\ Len(SpawnedThisTick(drops')) = Len(SpawnedThisTick(drops))
                /\ \A i \in 1..Len(drops') :
                      drops'[i].spawn_time = elapsed => ~drops'[i].can_collect]_vars
    /\ [](/\ pc = "advance" =>
                /\ Len(breaking) >= Len(commands.spawn_breaking)
                /\ SubSeq(breaking, Len(breaking) - Len(commands.spawn_breaking) + 1,
                          Len(breaking)) = commands.spawn_breaking
          /\ pc = "simulate" =>
                /\ Len(drops) >= Len(commands.spawn_drops)
                /\ SubSeq(drops, Len(drops) - Len(commands.spawn_drops) + 1, Len(drops))
                      = commands.spawn_drops
                /\ SpawnedThisTick(drops) = commands.spawn_drops)

\* the collect pass of a tick has run over a drop the tick's own resolution
\* spawned, inside the pickup radius of the player, and the drop is still there
C12_Witness ==
    /\ pc = "clean"
    /\ has_player
    /\ \E i \in 1..Len(drops) :
          /\ drops[i].spawn_time = elapsed
          /\ ~drops[i].can_collect
          /\ \E player_translation \in PlayerPositions :
                Within(player_translation, drops[i].translation, COLLECT_RADIUS)

\* C13: a call get_or_create_chunk(position) leaves a chunk stored at position;
\* when none was stored it is a fresh one: its position is the coordinate
\* asked for, its LOD is Ultra, it is dirty and its materials are the
\* classification of its densities; when one was stored it is that chunk as it
\* was; every other chunk is as it was and none is added; no step of the store
\* removes a chunk.
C13_GetOrCreate ==
    /\ [][DOMAIN chunk_system.base_chunks \subseteq DOMAIN chunk_system'.base_chunks]_vars
    /\ [][\A position \in ChunkCoords :
            GetOrCreateChunk(position) =>
                LET old == chunk_system.base_chunks
                    new == chunk_system'.base_chunks
                IN /\ DOMAIN new = (DOMAIN old) \cup {position}
                   /\ new[position].position = position
                   /\ position \in DOMAIN old => new[position] = old[position]
                   /\ position \notin DOMAIN old =>
                         /\ new[position].lod_level = "Ultra"
                         /\ new[position].dirty
                         /\ \A q \in DOMAIN new[position].voxel_types :
                               new[position].voxel_types[q] =
                                  from_density(new[position].densities[q],
                                               (position[2] * BASE_CHUNK_SIZE + q[2])
                                               * VOXEL_SIZE)
                   /\ \A c \in (DOMAIN old) \ {position} : new[c] = old[c]
                   /\ chunk_system'.player_position = chunk_system.player_position]_vars

\* the store holds a chunk that was reclassified and had a voxel cleared, next
\* to a chunk generated after that
C13_Witness ==
    /\ <<0, 0, 0>> \in DOMAIN chunk_system.base_chunks
    /\ <<1, 0, 0>> \in DOMAIN chunk_system.base_chunks
    /\ chunk_system.base_chunks[<<0, 0, 0>>].lod_level # "Ultra"
    /\ MaterialAt(chunk_system, <<0, 0, 0>>, <<BASE_CHUNK_SIZE - 1, 0, 0>>) = "Air"
    /\ chunk_system.base_chunks[<<1, 0, 0>>].lod_level = "Ultra"
    /\ chunk_system.player_position # <<0, 0, 0>>

\* C18: for every voxel of every stored chunk whose material is tracked, the
\* material is solid exactly when the density at the same index is positive.
C18_MaterialMatchesDensity ==
    \A c \in DOMAIN chunk_system.base_chunks :
        \A p \in DOMAIN chunk_system.base_chunks[c].voxel_types :
            is_solid(chunk_system.base_chunks[c].voxel_types[p])
            <=> get_density(chunk_system.base_chunks[c], p) > 0

\* the chunk coordinate next to c on the upper side of axis a
UpperNeighbour(c, a) == [c EXCEPT ![a] = @ + 1]

\* C19: for every two stored chunks whose coordinates differ by one along one
\* axis, the density at index 32 of the lower chunk along that axis equals the
\* density at index 0 of the upper chunk, for every pair of indices on the
\* other two axes.
C19_BorderContinuity ==
    \A c \in DOMAIN chunk_system.base_chunks :
        \A a \in 1..3 :
            UpperNeighbour(c, a) \in DOMAIN chunk_system.base_chunks =>
                \A p \in GridCorners :
                    p[a] = BASE_CHUNK_SIZE =>
                        chunk_system.base_chunks[c].densities[p] =
                            chunk_system.base_chunks[UpperNeighbour(c, a)]
                                .densities[[p EXCEPT ![a] = 0]]

\* the origin chunk is stored with its lower neighbour on x and on z and its
\* upper neighbour on y, over a terrain whose height changes across the border
C19_Witness ==
    /\ {<<-1, 0, 0>>, <<0, 0, 0>>, <<0, 1, 0>>, <<0, 0, -1>>}
          \subseteq DOMAIN chunk_system.base_chunks
    /\ chunk_system.base_chunks[<<-1, 0, 0>>].densities[<<BASE_CHUNK_SIZE, 0, 0>>]
          # chunk_system.base_chunks[<<-1, 0, 0>>].densities[<<BASE_CHUNK_SIZE - 1, 0, 0>>]
    /\ chunk_system.base_chunks[<<0, 0, -1>>].densities[<<0, 0, BASE_CHUNK_SIZE>>]
          # chunk_system.base_chunks[<<0, 0, -1>>].densities[<<0, 0, BASE_CHUNK_SIZE - 1>>]

\* the chunk a first call of get_or_create_chunk generates for position in a
\* store that holds nothing, under the noise of the current store
GeneratedFirst(position) ==
    get_or_create_chunk(DynamicChunkSystemNew(chunk_system.noise_generator), position)
        .base_chunks[position]

\* C20: no step changes the noise generator, and a chunk generated for a
\* coordinate, whatever was generated, cleared or reclassified before it, has
\* the density grid and the material grid of the chunk generated for that
\* coordinate in an empty store.
C20_Determinism ==
    [][/\ chunk_system'.noise_generator = chunk_system.noise_generator
       /\ \A position \in (DOMAIN chunk_system'.base_chunks)
                            \ (DOMAIN chunk_system.base_chunks) :
             /\ chunk_system'.base_chunks[position].densities
                   = GeneratedFirst(position).densities
             /\ chunk_system'.base_chunks[position].voxel_types
                   = GeneratedFirst(position).voxel_types]_vars

\* a chunk was generated while the player was away, after another chunk had
\* been reclassified and had a voxel cleared
C20_Witness ==
    /\ <<-1, 0, 0>> \in DOMAIN chunk_system.base_chunks
    /\ <<0, 1, 0>> \in DOMAIN chunk_system.base_chunks
    /\ chunk_system.base_chunks[<<-1, 0, 0>>].lod_level = "High"
    /\ MaterialAt(chunk_system, <<-1, 0, 0>>, <<BASE_CHUNK_SIZE - 1, 0, 0>>) = "Air"
    /\ chunk_system.base_chunks[<<0, 1, 0>>].lod_level = "Ultra"
    /\ chunk_system.player_position = <<5000, 0, 0>>

\* the solid voxels of the stored chunks, in world voxel coordinates
SolidVoxels(cs) ==
    UNION {{GlobalOf(c, p) : p \in {q \in DOMAIN cs.base_chunks[c].voxel_types :
                                        is_solid(cs.base_chunks[c].voxel_types[q])}} :
           c \in DOMAIN cs.base_chunks}

Max2(a, b) == IF a >= b THEN a ELSE b

Min2(a, b) == IF a <= b THEN a ELSE b

\* Ray geometry.  The ray of a camera is translation + t * forward, t >= 0;
\* times are kept multiplied by RayScale(forward), which makes them integers.
\* On one axis, with origin o, direction d and the voxel slab [lo, lo + edge):
\* the time the ray comes into the slab and the time it leaves it
SlabEnter(o, d, lo, scale) ==
    IF d > 0 THEN (lo - o) * (scale \div d)
    ELSE IF d < 0 THEN (o - (lo + VOXEL_SIZE)) * (scale \div (-d))
    ELSE IF lo <= o /\ o < lo + VOXEL_SIZE THEN -RayInfinity ELSE RayInfinity

SlabExit(o, d, lo, scale) ==
    IF d > 0 THEN (lo + VOXEL_SIZE - o) * (scale \div d)
    ELSE IF d < 0 THEN (o - lo) * (scale \div (-d))
    ELSE IF lo <= o /\ o < lo + VOXEL_SIZE THEN RayInfinity ELSE -RayInfinity

\* the time the ray of cam comes into the bounding cube of voxel v
CubeEnter(cam, v) ==
    LET o == cam.translation
        d == cam.forward
        sc == RayScale(d)
    IN Max2(0, Max2(SlabEnter(o[1], d[1], v[1] * VOXEL_SIZE, sc),
                    Max2(SlabEnter(o[2], d[2], v[2] * VOXEL_SIZE, sc),
                         SlabEnter(o[3], d[3], v[3] * VOXEL_SIZE, sc))))

\* the time the ray of cam leaves the bounding cube of voxel v
CubeExit(cam, v) ==
    LET o == cam.translation
        d == cam.forward
        sc == RayScale(d)
    IN Min2(SlabExit(o[1], d[1], v[1] * VOXEL_SIZE, sc),
            Min2(SlabExit(o[2], d[2], v[2] * VOXEL_SIZE, sc),
                 SlabExit(o[3], d[3], v[3] * VOXEL_SIZE, sc)))

NormSq(d) == d[1] * d[1] + d[2] * d[2] + d[3] * d[3]

\* the ray of cam runs through the inside of the bounding cube of v and comes
\* into it at a distance of at most max_distance from its origin
RayEnters(cam, v, max_distance) ==
    /\ CubeEnter(cam, v) < CubeExit(cam, v)
    /\ CubeEnter(cam, v) * CubeEnter(cam, v) * NormSq(cam.forward)
          <= max_distance * max_distance * RayScale(cam.forward) * RayScale(cam.forward)

\* the ray of cam does not touch the bounding cube of v
RayOutside(cam, v) == CubeEnter(cam, v) > CubeExit(cam, v)

\* C14: a detect pass run with the button held, in a world with exactly one
\* solid voxel, spawns an entity on that voxel, with its chunk coordinate,
\* local coordinate and material, when the camera ray comes into the voxel's
\* bounding cube within the maximum distance, and finds nothing when the ray
\* does not touch the cube; in any world the voxel found is solid and no other
\* solid voxel is entered by the ray before it.
C14_RaycastFindsVoxel ==
    [][pc = "detect" =>
        \A cam \in RayAims :
            start_voxel_breaking(TRUE, cam) =>
                LET hit == DetectHit(cam)
                    solid == SolidVoxels(chunk_system)
                IN /\ \A v \in solid :
                         solid = {v} =>
                            /\ RayEnters(cam, v, RAYCAST_MAX_DISTANCE) =>
                                  /\ hit.some
                                  /\ hit.chunk_pos = ChunkOf(v)
                                  /\ hit.local_pos = LocalOf(v)
                                  /\ hit.voxel_type = MaterialAt(chunk_system, ChunkOf(v),
                                                                 LocalOf(v))
                                  /\ Len(breaking') = 1
                                  /\ SameTarget(breaking'[1], hit)
                            /\ RayOutside(cam, v) => (~hit.some /\ breaking' = <<>>)
                   /\ hit.some =>
                         LET h == GlobalOf(hit.chunk_pos, hit.local_pos)
                         IN /\ h \in solid
                            /\ \A v \in solid \ {h} :
                                  ~(/\ RayEnters(cam, v, RAYCAST_MAX_DISTANCE)
                                    /\ CubeEnter(cam, v) < CubeEnter(cam, h))]_vars

\* the voxel that holds the point of the ray of cam at time (2k + 1) / 4
SampleVoxel(cam, k) ==
    LET o == cam.translation
        d == cam.forward
    IN <<(4 * o[1] + d[1] * (2 * k + 1)) \div (4 * VOXEL_SIZE),
         (4 * o[2] + d[2] * (2 * k + 1)) \div (4 * VOXEL_SIZE),
         (4 * o[3] + d[3] * (2 * k + 1)) \div (4 * VOXEL_SIZE)>>

\* the voxels the ray of cam passes through within max_distance of its origin
\* and before it leaves the voxel hit: with an integer origin and direction
\* components of magnitude at most 2 the ray stays in a voxel for a time of at
\* least 1/2, so every voxel it passes through holds one of the points sampled
\* at the times 1/4, 3/4, 5/4, ...
VoxelsPassed(cam, max_distance, hit) ==
    {SampleVoxel(cam, k) :
        k \in {j \in 0..(2 * max_distance) :
                 /\ (2 * j + 1) * (2 * j + 1) * NormSq(cam.forward)
                       <= 16 * max_distance * max_distance
                 /\ hit.some =>
                       RayScale(cam.forward) * (2 * j + 1)
                          < 4 * CubeExit(cam, GlobalOf(hit.chunk_pos, hit.local_pos))}}

\* C15: the voxels a raycast tests start at the voxel of the origin; each next
\* one differs from the one before by one step in the direction of the ray on
\* one axis, an axis whose pending t_max is the smallest; none is tested
\* twice; they are entered by the ray in the order they are tested; and every
\* voxel the ray passes through up to the hit or the maximum distance is
\* among them.
C15_TraversalVisitsEveryVoxel ==
    [][pc = "detect" =>
        \A cam \in RayAims :
            start_voxel_breaking(TRUE, cam) =>
                LET trace == raycast_voxel_3d_trace(cam.translation, cam.forward,
                                                    RAYCAST_MAX_DISTANCE, chunk_system)
                    hit == DetectHit(cam)
                IN /\ Len(trace) >= 1
                   /\ trace[1].voxel_pos = <<cam.translation[1] \div VOXEL_SIZE,
                                             cam.translation[2] \div VOXEL_SIZE,
                                             cam.translation[3] \div VOXEL_SIZE>>
                   /\ \A k \in 1..(Len(trace) - 1) :
                         /\ \E a \in 1..3 :
                               /\ cam.forward[a] # 0
                               /\ trace[k + 1].voxel_pos =
                                     [trace[k].voxel_pos EXCEPT ![a] =
                                         @ + (IF cam.forward[a] > 0 THEN 1 ELSE -1)]
                               /\ \A b \in 1..3 : trace[k].t_max[a] <= trace[k].t_max[b]
                         /\ CubeEnter(cam, trace[k].voxel_pos)
                               <= CubeEnter(cam, trace[k + 1].voxel_pos)
                   /\ \A j, k \in 1..Len(trace) :
                         j < k => trace[j].voxel_pos # trace[k].voxel_pos
                   /\ \A v \in VoxelsPassed(cam, RAYCAST_MAX_DISTANCE, hit) :
                         \E k \in 1..Len(trace) : trace[k].voxel_pos = v]_vars

\* the point the ground search of the drop of voxel v starts from
GroundProbe(v) ==
    <<v[1] * VOXEL_SIZE, v[2] * VOXEL_SIZE + GROUND_SEARCH_OFFSET, v[3] * VOXEL_SIZE>>

\* In the formulas below a traversal is bound by a quantifier over the set that
\* holds it alone, which has it computed once for the whole formula.

\* C16: a raycast of the detect pass runs at least one and at most
\* floor(max_distance / voxel_size) + 1 iterations and answers with the voxel
\* its last iteration tested when that voxel is solid and with no result
\* otherwise; a ground search of the advance pass tests at most
\* floor(max_distance / (voxel_size / 2)) samples, answers with its last
\* sample when that lies in a solid voxel and with no result, as does
\* find_ground_height, when it has tested them all without meeting one.
C16_BoundedSearch ==
    [][/\ pc = "detect" =>
             \A cam \in RayAims :
                 start_voxel_breaking(TRUE, cam) =>
                     \A trace \in {raycast_voxel_3d_trace(cam.translation, cam.forward,
                                                          RAYCAST_MAX_DISTANCE, chunk_system)} :
                     LET hit == DetectHit(cam)
                         last == RayTest(trace[Len(trace)].voxel_pos, chunk_system)
                     IN /\ Len(trace) >= 1
                        /\ Len(trace) <= (RAYCAST_MAX_DISTANCE \div VOXEL_SIZE) + 1
                        /\ hit = IF last.some THEN last ELSE None
                        /\ ~hit.some => breaking' = <<>>
       /\ pc = "advance" =>
             \A v \in SolidVoxels(chunk_system) :
                 \A samples \in {raycast_ground_trace(GroundProbe(v), GROUND_SEARCH_DISTANCE,
                                                      chunk_system')} :
                 LET found == raycast_ground(GroundProbe(v), GROUND_SEARCH_DISTANCE,
                                             chunk_system')
                 IN /\ Len(samples) >= 1
                    /\ Len(samples) <= GROUND_SEARCH_DISTANCE \div (VOXEL_SIZE \div 2)
                    /\ found.some <=> GroundTest(samples[Len(samples)], chunk_system')
                    /\ found.some => found.pos = samples[Len(samples)]
                    /\ ~found.some =>
                          /\ Len(samples) = GROUND_SEARCH_DISTANCE \div (VOXEL_SIZE \div 2)
                          /\ find_ground_height(GroundProbe(v), chunk_system',
                                                GROUND_SEARCH_DISTANCE) = None]_vars

\* a detect pass has found nothing in a world that holds a solid voxel, and a
\* camera ray of that world runs out of iterations before it meets one
C16_Witness ==
    /\ pc = "advance"
    /\ breaking = <<>>
    /\ SolidVoxels(chunk_system) # {}
    /\ \E cam \in RayAims :
          /\ ~DetectHit(cam).some
          /\ Len(raycast_voxel_3d_trace(cam.translation, cam.forward, RAYCAST_MAX_DISTANCE,
                                         chunk_system))
                = (RAYCAST_MAX_DISTANCE \div VOXEL_SIZE) + 1

\* C17: a raycast of the detect pass never answers with a voxel of a chunk the
\* store lacks: it tests such a voxel as not solid and goes on to the next
\* voxel unless the step bound or the maximum distance ends the traversal,
\* and it ends without a result when its last voxel is one; a ground search
\* of the advance pass never answers with a sample of a chunk the store
\* lacks; the detect pass leaves the store as it was, and no pass adds or
\* removes a chunk.
C17_MissingChunkIsNoHit ==
    [][/\ DOMAIN chunk_system'.base_chunks = DOMAIN chunk_system.base_chunks
       /\ pc = "detect" =>
             /\ chunk_system' = chunk_system
             /\ \A cam \in RayAims :
                   start_voxel_breaking(TRUE, cam) =>
                       \A trace \in {raycast_voxel_3d_trace(cam.translation, cam.forward,
                                                            RAYCAST_MAX_DISTANCE,
                                                            chunk_system)},
                          hit \in {DetectHit(cam)} :
                       LET absent(k) == ChunkOf(trace[k].voxel_pos)
                                           \notin DOMAIN chunk_system.base_chunks
                           next_pos(k) ==
                               [trace[k].voxel_pos EXCEPT ![RayAxis(trace[k].t_max)] =
                                   @ + RayStep(cam.forward)[RayAxis(trace[k].t_max)]]
                           in_reach(k) ==
                               DistSq(<<next_pos(k)[1] * VOXEL_SIZE,
                                        next_pos(k)[2] * VOXEL_SIZE,
                                        next_pos(k)[3] * VOXEL_SIZE>>, cam.translation)
                                  <= RAYCAST_MAX_DISTANCE * RAYCAST_MAX_DISTANCE
                       IN /\ hit.some => hit.chunk_pos \in DOMAIN chunk_system.base_chunks
                          /\ \A k \in 1..Len(trace) :
                                absent(k) =>
                                   /\ ~RayTest(trace[k].voxel_pos, chunk_system).some
                                   /\ k = Len(trace) => (~hit.some /\ breaking' = <<>>)
                                   /\ (k < RayMaxSteps(RAYCAST_MAX_DISTANCE) /\ in_reach(k))
                                         => k < Len(trace)
       /\ pc = "advance" =>
             /\ \A c \in DOMAIN chunk_system.base_chunks :
                   LET old == chunk_system.base_chunks[c]
                       new == chunk_system'.base_chunks[c]
                   IN /\ new.densities = old.densities
                      /\ \A p \in DOMAIN old.voxel_types :
                            new.voxel_types[p] # old.voxel_types[p] =>
                               /\ new.voxel_types[p] = "Air"
                               /\ \E i \in 1..Len(breaking) :
                                     /\ breaking[i].chunk_pos = c
                                     /\ breaking[i].local_pos = p
             /\ \A v \in SolidVoxels(chunk_system) :
                   \A samples \in {raycast_ground_trace(GroundProbe(v),
                                                        GROUND_SEARCH_DISTANCE, chunk_system')},
                      found \in {raycast_ground(GroundProbe(v), GROUND_SEARCH_DISTANCE,
                                                chunk_system')} :
                   LET absent(k) == world_to_voxel_3d(samples[k])[1]
                                       \notin DOMAIN chunk_system'.base_chunks
                   IN /\ found.some =>
                            world_to_voxel_3d(found.pos)[1]
                               \in DOMAIN chunk_system'.base_chunks
                      /\ \A k \in 1..Len(samples) :
                            absent(k) =>
                               /\ ~GroundTest(samples[k], chunk_system')
                               /\ k = Len(samples) => ~found.some
                               /\ k < GROUND_SEARCH_DISTANCE \div (VOXEL_SIZE \div 2)
                                     => k < Len(samples)]_vars

\* a detect pass has found a voxel of chunk (1, 0, 0) with a ray that left
\* from a voxel of chunk (0, 0, 0), which the store lacks
C17_Witness ==
    /\ pc = "advance"
    /\ <<0, 0, 0>> \notin DOMAIN chunk_system.base_chunks
    /\ Len(breaking) = 1
    /\ breaking[1].chunk_pos = <<1, 0, 0>>
    /\ Len(commands.spawn_breaking) = 1

\* the level the LOD Manager is to give a distance (cm)
ClassifyLevel(d) ==
    IF d < 5000 THEN "Ultra"
    ELSE IF d < 10000 THEN "High"
    ELSE IF d < 20000 THEN "Medium"
    ELSE IF d < 40000 THEN "Low"
    ELSE "Minimal"

\* the levels from the finest to the coarsest
LodRank(level) ==
    CASE level = "Ultra" -> 0
      [] level = "High" -> 1
      [] level = "Medium" -> 2
      [] level = "Low" -> 3
      [] level = "Minimal" -> 4

\* the distances (cm) the levels are quoted for, and two past the last threshold
QuotedDistances == {2500, 7500, 15000, 30000, 50000, 80000, 100000}

\* the distances from the stored chunks to the player position in store cs
ChunkDistances(cs) ==
    {Vec3Distance(chunk_world_pos(c), cs.player_position) : c \in DOMAIN cs.base_chunks}

\* C21: for the distance of every chunk an update of the player position
\* classifies, and for the quoted distances 25, 75, 150, 300, 500, 800 and
\* 1000 m, from_distance is Ultra below 50 m, High from 50 m to below 100 m,
\* Medium from 100 m to below 200 m, Low from 200 m to below 400 m and Minimal
\* from 400 m on; of two of these distances the larger never gets the finer
\* level; and from_distance of lod_system.rs gives the same level as
\* from_distance of chunk.rs.
C21_LodClassification ==
    [][\A new_position \in {chunk_system'.player_position} :
          (/\ DOMAIN chunk_system'.base_chunks = DOMAIN chunk_system.base_chunks
           /\ UpdatePlayerPosition(new_position)) =>
              \A ds \in {ChunkDistances(chunk_system') \cup QuotedDistances} :
                  /\ \A c \in DOMAIN chunk_system'.base_chunks :
                        chunk_system'.base_chunks[c].lod_level
                           = from_distance(Vec3Distance(chunk_world_pos(c), new_position))
                  /\ \A d \in ds :
                        /\ from_distance(d) = ClassifyLevel(d)
                        /\ lod_system_from_distance(d) = from_distance(d)
                        /\ \A e \in ds :
                              d <= e => LodRank(from_distance(d)) <= LodRank(from_distance(e))
                  /\ from_distance(2500) = "Ultra"
                  /\ from_distance(7500) = "High"
                  /\ from_distance(15000) = "Medium"
                  /\ from_distance(30000) = "Low"
                  /\ from_distance(50000) = "Minimal"]_vars

\* with the player 800 m out, the chunk at exactly 800 m and the chunk past it
\* are Minimal; the chunk generated since is Ultra
C21_Witness ==
    /\ chunk_system.player_position = <<80000, 0, 0>>
    /\ {<<0, 0, 0>>, <<-1, 0, 0>>, <<1, 0, 0>>} \subseteq DOMAIN chunk_system.base_chunks
    /\ chunk_system.base_chunks[<<0, 0, 0>>].lod_level = "Minimal"
    /\ chunk_system.base_chunks[<<-1, 0, 0>>].lod_level = "Minimal"
    /\ chunk_system.base_chunks[<<1, 0, 0>>].lod_level = "Ultra"

Shown(chunk) == {p \in DOMAIN chunk.voxel_types : is_solid(chunk.voxel_types[p])}

\* C23: when a tick starts, the mesh of every stored chunk encloses exactly the
\* voxels of the chunk that are solid: a chunk a resolution has mutated has
\* been extracted again and its mesh swapped by the end of that tick at the
\* latest, so that a destroyed voxel does not stay in the rendered mesh.
C23_MeshFollowsMutation ==
    pc = "begin" =>
        \A c \in DOMAIN chunk_system.base_chunks :
            chunk_meshes[c] = Shown(chunk_system.base_chunks[c])


\* the world positions of the voxels that are solid in the store a and Air in
\* the store b
DestroyedBetween(a, b) ==
    {<<GlobalOf(c, p)[1] * VOXEL_SIZE, GlobalOf(c, p)[2] * VOXEL_SIZE,
       GlobalOf(c, p)[3] * VOXEL_SIZE>> :
        <<c, p>> \in {cp \in UNION {{<<c, p>> : p \in DOMAIN a.base_chunks[c].voxel_types} :
                                     c \in DOMAIN a.base_chunks} :
                        /\ is_solid(get_voxel_type(a.base_chunks[cp[1]], cp[2]))
                        /\ ~is_solid(get_voxel_type(b.base_chunks[cp[1]], cp[2]))}}

\* the number of resolutions a pass has logged
Resolutions(l) == Cardinality({k \in DOMAIN l : l[k].msg = "crater"})

\* C24: a read of a chunk never sees it half-mutated: when one resolution runs
\* in the advance pass, the ground given to each drop it spawns is the ground
\* found in the store as the resolution leaves it, all its voxel writes done
C24_NoHalfMutatedRead ==
    [][(pc = "advance" /\ Resolutions(log') = 1) =>
          \A k \in DOMAIN commands'.spawn_drops :
              \E world_pos \in DestroyedBetween(chunk_system, chunk_system') :
                  commands'.spawn_drops[k] =
                      spawn_voxel_drop_with_ground_detection(
                          commands'.spawn_drops[k].voxel_type,
                          commands'.spawn_drops[k].quantity, world_pos, chunk_system',
                          commands'.spawn_drops[k].spawn_time,
                          commands'.spawn_drops[k].velocity)]_vars


\* the multiplier table in tenths: 1.5 for a matched pair, 0.3 for an
\* unmatched pair and for bare hands, 1.0 against Air
TableEffectiveness(tool_type, voxel_type) ==
    IF voxel_type = "Air" THEN 10
    ELSE IF <<tool_type, voxel_type>> \in
              {<<"Pickaxe", "Stone">>, <<"Pickaxe", "Metal">>, <<"Axe", "Wood">>,
               <<"Shovel", "Dirt">>, <<"Shovel", "Grass">>, <<"Shovel", "Sand">>}
         THEN 15
    ELSE 3

WorldCoordinates ==
    {-3210, -3205, -3201, -3200, -3199, -325, -320, -15, -10, -9, -1, 0, 1, 9, 10, 315,
     319, 320, 3199, 3200, 3205}

\* C28: world_to_voxel_3d gives, for every world position, a local coordinate
\* within 0..31 on each axis and a chunk coordinate such that chunk * 32 +
\* local is the voxel index, the floor of position / voxel size, on each axis;
\* so the voxel a VoxelBreaking entity names is one its chunk holds
C28_FloorAndEuclid ==
    /\ \A x \in WorldCoordinates : \A y, z \in {-15, 0, 325} :
          \A world_pos \in {<<x, y, z>>, <<y, x, z>>, <<y, z, x>>} :
              \A w \in {world_to_voxel_3d(world_pos)} :
                  /\ InChunk(w[2])
                  /\ \A a \in 1..3 :
                        /\ w[1][a] * BASE_CHUNK_SIZE + w[2][a] = w[3][a]
                        /\ w[3][a] * VOXEL_SIZE <= world_pos[a]
                        /\ world_pos[a] < (w[3][a] + 1) * VOXEL_SIZE
    /\ \A k \in DOMAIN breaking :
          /\ InChunk(breaking[k].local_pos)
          /\ breaking[k].chunk_pos \in DOMAIN chunk_system.base_chunks

\* the ray has hit the voxel (-3, 0, 0): local (29, 0, 0) of chunk (-1, 0, 0)
C28_Witness ==
    \E k \in DOMAIN breaking :
        /\ breaking[k].chunk_pos = <<-1, 0, 0>>
        /\ breaking[k].local_pos = <<29, 0, 0>>


\* the position a drop reaches when its velocity is applied for dt
Integrated(drop, dt) ==
    <<drop.translation[1] + MulRatio(drop.velocity[1], dt, TimeUnitsPerSecond),
      drop.translation[2] + MulRatio(drop.velocity[2], dt, TimeUnitsPerSecond),
      drop.translation[3] + MulRatio(drop.velocity[3], dt, TimeUnitsPerSecond)>>

\* the downward search from position meets no voxel of positive density. The
\* stored chunks all lie in the layer y = 0 of chunks, so only the samples
\* inside the voxel layers 0..31 can read a density: each of those at or
\* below position.y and above the floor of the search reads one that is not
\* positive
NoGroundBelow(position, cs) ==
    /\ \A c \in DOMAIN cs.base_chunks : c[2] = 0
    /\ \A layer \in 0..(BASE_CHUNK_SIZE - 1) :
          \A y \in {layer * VOXEL_SIZE + (position[2] % VOXEL_SIZE)} :
              (y <= position[2] /\ y > LEGACY_GROUND_FLOOR)
              => LegacyDensityAt(<<position[1], y, position[3]>>, cs) <= 0

\* C27: after the simulate pass every drop is at or above the ground height
\* the pass found under it; a drop whose integrated position is at or below
\* that height is set on it with the vertical velocity 0.3 * |v.y|, which is
\* not negative; a drop above it keeps its integrated position; and where the
\* search meets no solid voxel the ground height is the default
C27_DropsStayAboveGround ==
    [][pc = "simulate" =>
          /\ Len(drops') = Len(drops)
          /\ \A i \in DOMAIN drops :
                \A moved \in {Integrated(drops[i], delta)} :
                    \A ground \in {drops_find_ground_height(moved, chunk_system)} :
                        /\ drops'[i].translation[2] >= ground
                        /\ moved[2] <= ground =>
                              /\ drops'[i].translation = <<moved[1], ground, moved[3]>>
                              /\ drops'[i].velocity[2] >= 0
                              /\ drops'[i].velocity[2] =
                                    (3 * Abs(drops[i].velocity[2]
                                             - MulRatio(GRAVITY_DROP, delta,
                                                        TimeUnitsPerSecond))) \div 10
                        /\ moved[2] > ground => drops'[i].translation = moved
                        /\ NoGroundBelow(moved, chunk_system)
                              => ground = LEGACY_GROUND_DEFAULT]_vars

\* a drop that rose for one tick of 1 s and fell for the next has gone below
\* the stored chunks, where the search meets no solid voxel: the simulate pass
\* has set it on the default ground height with the vertical velocity
\* 0.3 * |-7.8 - 9.8| m/s
C27_Witness ==
    /\ pc = "collect"
    /\ \E i \in DOMAIN drops :
          /\ drops[i].translation[2] = LEGACY_GROUND_DEFAULT
          /\ drops[i].velocity[2] = (3 * (780 + GRAVITY_DROP)) \div 10
          /\ NoGroundBelow(<<drops[i].translation[1], -1, drops[i].translation[3]>>,
                           chunk_system)


\* the number of solid voxels of a chunk
SolidCount(chunk) ==
    Cardinality({p \in DOMAIN chunk.voxel_types : is_solid(chunk.voxel_types[p])})

\* C30: terrain only erodes: in every step the store keeps its chunks and
\* every density; a voxel whose material changes was solid, is Air afterwards
\* and changed in an advance pass that ran a resolution, so no chunk gains a
\* solid voxel and an Air voxel stays Air; and an update of the player
\* position, which reclassifies the levels of detail, leaves every material
\* and every density of the store as it is
C30_TerrainOnlyErodes ==
    [][/\ DOMAIN chunk_system'.base_chunks = DOMAIN chunk_system.base_chunks
       /\ \A c \in DOMAIN chunk_system.base_chunks :
             /\ chunk_system'.base_chunks[c].densities
                   = chunk_system.base_chunks[c].densities
             /\ SolidCount(chunk_system'.base_chunks[c])
                   <= SolidCount(chunk_system.base_chunks[c])
             /\ \A p \in DOMAIN chunk_system.base_chunks[c].voxel_types
                         \cup DOMAIN chunk_system'.base_chunks[c].voxel_types :
                   MaterialAt(chunk_system', c, p) # MaterialAt(chunk_system, c, p)
                   => /\ pc = "advance"
                      /\ Resolutions(log') >= 1
                      /\ is_solid(MaterialAt(chunk_system, c, p))
                      /\ MaterialAt(chunk_system', c, p) = "Air"
             /\ \A new_position \in LodPositions :
                   \A updated \in {update_player_position(chunk_system', new_position)} :
                       /\ updated.base_chunks[c].voxel_types
                             = chunk_system'.base_chunks[c].voxel_types
                       /\ updated.base_chunks[c].densities
                             = chunk_system'.base_chunks[c].densities]_vars

\* a second resolution has run in a later frame than the first: the Grass
\* voxel and the Dirt voxel under it are Air and the column has kept its
\* densities
C30_Witness ==
    /\ pc = "simulate"
    /\ frame >= 2
    /\ Resolutions(log) = 1
    /\ MaterialAt(chunk_system, <<0, 0, 0>>, <<31, 15, 0>>) = "Air"
    /\ MaterialAt(chunk_system, <<0, 0, 0>>, <<31, 14, 0>>) = "Air"
    /\ get_density(chunk_system.base_chunks[<<0, 0, 0>>], <<31, 15, 0>>) > 0


\* the voxels of the column under the held camera
HoldTargets ==
    {[chunk_pos |-> <<0, 0, 0>>, local_pos |-> <<31, y, 0>>] : y \in {4, 14, 15}}

\* the shortest tick of the held pipeline
HoldDtMin == CHOOSE dt \in HoldDtChoices : \A other \in HoldDtChoices : dt <= other

\* a number of ticks of the shortest length within which the progress of b,
\* started at 0, reaches 1.0
TicksFor(b) == (b.break_time \div HoldDtMin) + 1

\* an entity targets v and the frames left are enough for it to complete
HeldOn(v) ==
    /\ pc = "advance"
    /\ \E k \in DOMAIN breaking :
          /\ SameTarget(breaking[k], v)
          /\ frame + TicksFor(breaking[k]) <= HoldFrames + 1

\* every surviving entity has gained progress in an advance pass
ProgressGrows ==
    [][pc = "advance" =>
          \A j \in DOMAIN breaking :
              j \notin commands'.despawn_breaking
              => \E k \in DOMAIN breaking' :
                    /\ SameTarget(breaking'[k], breaking[j])
                    /\ breaking'[k].progress > breaking[j].progress]_vars

\* the statement with the break time positive for every pair, Air included
C29_BreakTimePositiveForAll ==
    /\ \A v \in HoldTargets :
          HeldOn(v) ~> (MaterialAt(chunk_system, v.chunk_pos, v.local_pos) = "Air")
    /\ [](\A voxel_type \in VoxelTypes : \A tool_type \in ToolTypes :
              /\ calculate_break_time(voxel_type, tool_type) > 0
              /\ calculate_break_time(voxel_type, tool_type) < BREAK_TIME_SENTINEL)
    /\ ProgressGrows

\* C29: while the button is held on a solid voxel with ticks of at least 2 s,
\* the progress of its entity reaches 1.0, the resolution runs and the voxel
\* becomes Air; for every tool and every solid material the break time is
\* positive and below the sentinel, and every advance pass an entity survives
\* raises its progress
C29_HeldBreakCompletes ==
    /\ \A v \in HoldTargets :
          HeldOn(v) ~> (MaterialAt(chunk_system, v.chunk_pos, v.local_pos) = "Air")
    /\ [](\A voxel_type \in VoxelTypes \ {"Air"} : \A tool_type \in ToolTypes :
              /\ calculate_break_time(voxel_type, tool_type) > 0
              /\ calculate_break_time(voxel_type, tool_type) < BREAK_TIME_SENTINEL)
    /\ ProgressGrows

\* bare hands held on the Grass voxel for four ticks of 2 s: the entity
\* advanced over several ticks and the voxel is Air
C29_Witness ==
    /\ pc = "simulate"
    /\ frame = 4
    /\ elapsed = 4 * HoldDtMin
    /\ EquippedToolType = "None"
    /\ Resolutions(log) = 1
    /\ MaterialAt(chunk_system, <<0, 0, 0>>, <<31, 15, 0>>) = "Air"
    /\ MaterialAt(chunk_system, <<0, 0, 0>>, <<31, 14, 0>>) # "Air"


\* the cell beside <<x, y, z>> of chunk on the side d is solid: the cell is
\* read in the chunk itself when it lies inside it, in the adjacent chunk of
\* the map when it lies across an x or z edge and that chunk is resident, and
\* is not solid when no chunk is resident on that side
NeighbourSolid(chunk, cm, cell, d) ==
    LET n == VAdd(cell, d)
        inside == /\ n[1] \in 0..(BASE_CHUNK_SIZE - 1)
                  /\ n[2] \in 0..(WORLD_HEIGHT - 1)
                  /\ n[3] \in 0..(BASE_CHUNK_SIZE - 1)
        beside == <<chunk.position[1] + (n[1] \div BASE_CHUNK_SIZE),
                    chunk.position[2] + (n[3] \div BASE_CHUNK_SIZE)>>
    IN IF inside THEN ColumnDensity(chunk, n[1], n[2], n[3]) > 0
       ELSE /\ n[2] \in 0..(WORLD_HEIGHT - 1)
            /\ beside \in DOMAIN cm
            /\ ColumnDensity(cm[beside], n[1] % BASE_CHUNK_SIZE, n[2],
                             n[3] % BASE_CHUNK_SIZE) > 0

\* C26: the mesh extracted for a columnar chunk holds a face of a cell exactly
\* when the cell is solid and its neighbour on that side is not, the boundary
\* face being emitted where no neighbour chunk is resident; it has 4 positions
\* and 6 indices per face, so none for a chunk whose densities are all <= 0
C26_FaceCulling ==
    [][\A position \in DOMAIN column_meshes' :
          (position \notin DOMAIN column_meshes
             \/ column_meshes'[position] # column_meshes[position])
          => /\ \A cell \in MeshCells : \A face \in DOMAIN Faces :
                   <<cell, face>> \in column_meshes'[position].faces
                   <=> /\ ColumnDensity(chunk_map[position], cell[1], cell[2], cell[3]) > 0
                       /\ ~NeighbourSolid(chunk_map[position], chunk_map, cell,
                                          Faces[face])
             /\ column_meshes'[position].positions
                   = 4 * Cardinality(column_meshes'[position].faces)
             /\ column_meshes'[position].indices
                   = 6 * Cardinality(column_meshes'[position].faces)
             /\ (\A cell \in MeshCells :
                    ColumnDensity(chunk_map[position], cell[1], cell[2], cell[3]) <= 0)
                => /\ column_meshes'[position].positions = 0
                   /\ column_meshes'[position].indices = 0]_vars

====
